---- MODULE Spec2Model ----
(***************************************************************************)
(* A model of WhisperManager (src/unnamed/part_000): the transcription     *)
(* pipeline (transcribeLocalWhisper, createTempAudioFile,                  *)
(* checkFFmpegAvailability, getFFmpegPath, runWhisperProcess) and the      *)
(* model download with its cancellation (downloadWhisperModel,             *)
(* cancelDownload).                                                        *)
(*                                                                         *)
(* Node's event loop runs one callback at a time: every action below is    *)
(* one run-to-completion piece of a method, from one await (or event) to   *)
(* the next.                                                               *)
(***************************************************************************)
EXTENDS Integers, Sequences, FiniteSets, TLC

\* Bounds of the model.
MaxCalls == 2        \* transcribeLocalWhisper invocations (may overlap)
MaxDownloads == 2    \* downloadWhisperModel invocations (may overlap)
MaxCancels == 1      \* cancelDownload calls
MaxLines == 2        \* lines a download process writes to its stderr
MaxStdoutLines == 3   \* lines of the worker stdout that parseWhisperResult is given
MaxBytes == 3        \* audio bytes of a createTempAudioFile argument
MaxLocates == 2      \* getFFmpegPath calls
MaxResolves == 2     \* operations that resolve the interpreter (may overlap)
MaxReasonings == 3   \* processText calls of the reasoning service (may overlap)
MaxRecordings == 2   \* startRecording calls of the audio manager (may overlap)

Null == "null"
Calls == 1..MaxCalls
Reasonings == 1..MaxReasonings
Recordings == 1..MaxRecordings
\* this.mediaRecorder = null (line 1312).
NoRecorder == 0
\* The argument of onStateChange, and what getState returns (lines 2039-2044).
State(recording, processing) == [isRecording |-> recording, isProcessing |-> processing]
\* The localStorage items that route a transcription (lines 1428, 1539-1540,
\* 1854-1855, 1929).
Settings(useLocalWhisper, allowOpenAIFallback, allowLocalFallback) ==
    [useLocalWhisper |-> useLocalWhisper, allowOpenAIFallback |-> allowOpenAIFallback,
     allowLocalFallback |-> allowLocalFallback]
\* No path: the const tempAudioPath of line 136 before createTempAudioFile has
\* returned, and the worker's argument before line 310.
NoPath == 0
Downloads == 1..MaxDownloads
Cancels == 1..MaxCancels
\* this.currentDownloadProcess = null
NoProcess == 0

VARIABLES
    \* ---- the environment the instance runs in (fixed after Init)
    envPython,                \* TRUE iff some interpreter candidate is a supported Python
    envFFmpeg,                \* where the decoder binary is (FFmpegEnvs)
    \* ---- WhisperManager fields (constructor, lines 12-22)
    pythonCmd,
    cachedFFmpegPath,
    cachedFFmpegAvailability,
    currentDownloadProcess,
    \* ---- the filesystem: the temporary audio files that exist
    files,
    \* ---- one transcribeLocalWhisper invocation per i \in Calls
    pc,                       \* where the invocation is
    audio,                    \* its audioBlob argument, from where it is read (line 183)
    ffmpegCheck,              \* its local ffmpegCheck (line 125)
    cacheHit,                 \* TRUE iff checkFFmpegAvailability answered from the cache
    effects,                  \* what the invocation has done: subprocesses spawned, file written
    outcome,                  \* what the invocation returned or threw
    \* ---- the runWhisperProcess promise of invocation i (lines 315-491)
    worker,                   \* whisperProcess: none | running | errored | closed
    timer,                    \* the setTimeout of line 397: none | armed | fired | cleared
    isResolved,               \* the guard of line 394
    promise,                  \* the promise's state
    settleCalls,              \* how many times resolve/reject have been called
    firstEvent,               \* which of timeout | close | error ran first
    termSent,                 \* TRUE iff whisperProcess.kill("SIGTERM") was called
    \* ---- one downloadWhisperModel invocation per p \in Downloads (lines 1026-1125)
    dlState,                  \* downloadProcess: none | running | errored | closed
    killed,                   \* downloadProcess.killed
    signals,                  \* the signals delivered to the process, in order
    dlTimer,                  \* the 20-minute timer of line 1107: none | armed | fired | cleared
    dlKillTimer,              \* the 5-second timer of line 1109: none | armed | fired
    dlPromise,                \* the promise of line 1039
    \* ---- one cancelDownload call per c \in Cancels (lines 1127-1147)
    cancels,
    \* ---- the 'close' event of a download process (line 1075) that the latest
    \* step handled, kept by the specifications that observe it
    closeEvent,
    \* ---- the stderr of the download process (lines 1050-1073)
    stderrWritten,            \* the lines the process has written, in order
    stderrPipe,               \* the characters written and not yet delivered as 'data'
    progressCalls,            \* the progressCallback invocations, in order: their progressData
    \* ---- one checkModelStatus, listWhisperModels and deleteWhisperModel call (1149-1298)
    opState,                  \* its process: none | running | errored | closed
    opStderr,                 \* its captured stderr (lines 1160, 1166-1168)
    opExit,                   \* what its process closed with: exit code, stdout parseable
    opPromise,                \* the promise it returned
    \* ---- one installWhisper call (lines 949-1024)
    platform,                 \* process.platform, from where it is first read (line 940)
    installPc,                \* the runCommand the call awaits
    attempts,                 \* the pip commands that have ended, in order
    upgradeError,             \* cleanUpgradeError (line 956)
    installOutcome,           \* what the call returned or threw
    installError,             \* the message of the error the package chain threw
    \* ---- one parseWhisperResult call (lines 494-536)
    parseInput,               \* the lines of its stdout argument
    parseOutput,              \* what it returned or threw
    \* ---- one createTempAudioFile call, step by step (lines 174-216)
    matPc,                    \* idle | write (line 198) | stat (line 201) | done
    matInput,                 \* its audioBlob argument
    matBuffer,                \* buffer.length (line 196)
    matFile,                  \* the size of the file at tempAudioPath, NoFile without one
    matOutcome,               \* what the call returned or threw
    \* ---- the getFFmpegPath calls, step by step (lines 218-296)
    locPc,                    \* of each call: idle | probing (the await of line 285) | done
    locEnv,                   \* what the calls read of their environment
    locCaught,                \* of each call: the error the catch of line 279 caught
    locResults,               \* what the finished calls returned or threw, in order
    locReturn,                \* of each call: what it returned or threw
    locBegan,                 \* of each call: how many calls had ended when it began
    locFs,                    \* of each call: TRUE iff it looked at the filesystem
    \* ---- the interpreters of the machine (fixed after Init)
    pyEnv,                    \* OPENWHISPR_PYTHON and what each candidate answers to --version
    \* ---- one operation that resolves the interpreter per r \in Resolves (lines 546-621)
    resKind,                  \* plain | forced (lines 731-736) | install (lines 672-685)
    resPc,                    \* idle | installing (line 677) | probing (line 608) | done
    resIndex,                 \* the position in candidateSet of the candidate being probed
    resSpawned,               \* the candidates it has spawned with --version, in order
    resResult,                \* what its findPythonExecutable returned or threw
    \* ---- history of the interpreter cache
    lastSuccess,              \* the interpreter of the latest success, "null" after a clearing
    clearPending,             \* TRUE from a clearing to the next call or success
    resExpected,              \* lastSuccess when the operation's findPythonExecutable began
    resAfterClear,            \* TRUE iff that call was the first after a clearing
    \* ---- the temporary file of each transcribeLocalWhisper call i \in Calls, by its name
    artPc,                    \* idle | run (line 145) | await | cleanup (line 167) | done
    uuids,                    \* the values crypto.randomUUID has returned
    tempAudioPath,            \* the const of line 136: the UUID in the file's name
    artFiles,                 \* the UUIDs of the files in os.tmpdir()
    workerArg,                \* the audio path in the worker's arguments (line 310)
    unlinked,                 \* the path the call's cleanupTempFile unlinked
    \* ---- LocalReasoningService: one processText call per c \in Reasonings
    reasoningIsProcessing,    \* this.isProcessing of the service
    rsPc,                     \* idle | availability | inference | done
    rsBusyAtCall,             \* this.isProcessing as the call read it
    rsInference,              \* TRUE iff the call has started an inference
    rsOutcome,                \* what the call returned or threw
    \* ---- AudioManager (lines 1310-2054): one startRecording call, with the recorder
    \* it creates and the processAudio call of that recorder's onstop, per k \in Recordings
    isRecording,              \* this.isRecording
    isProcessing,             \* this.isProcessing
    mediaRecorder,            \* this.mediaRecorder: the recording whose recorder it is
    stateChange,              \* the argument of the latest onStateChange call, if any
    recPc,                    \* idle | starting (line 1346) | refused | denied | recording
                              \* | stopping (stop() called) | stopped (onstop has run)
    settings,                 \* localStorage as the processAudio call under way reads it
    paPc,                     \* none | local | cloudFallback | cloud | localFallback | done
    transcriptions,           \* the transcription attempts of the call, in order
    callbacks,                \* the onTranscriptionComplete and onError calls of the call
    paOutcome                 \* how processAudio's try block ended

envVars == <<envPython, envFFmpeg, pyEnv>>
cacheVars == <<pythonCmd, cachedFFmpegPath, cachedFFmpegAvailability>>
callVars == <<pc, audio, ffmpegCheck, cacheHit, effects, outcome>>
runVars == <<worker, timer, isResolved, promise, settleCalls, firstEvent, termSent>>
tvars == <<files, callVars, runVars>>
dlVars == <<dlState, killed, signals, dlTimer, dlKillTimer, dlPromise>>
dvars == <<currentDownloadProcess, dlVars, cancels>>
\* What the transcription pipeline, the download and the cancellation leave alone.
progressVars == <<stderrWritten, stderrPipe, progressCalls>>
opVars == <<opState, opStderr, opExit, opPromise>>
installVars == <<platform, installPc, attempts, upgradeError, installOutcome, installError>>
parseVars == <<parseInput, parseOutput>>
matVars == <<matPc, matInput, matBuffer, matFile, matOutcome>>
locVars == <<locPc, locEnv, locCaught, locResults, locReturn, locBegan, locFs>>
resolveVars == <<resKind, resPc, resIndex, resSpawned, resResult,
                 lastSuccess, clearPending, resExpected, resAfterClear>>
artVars == <<artPc, uuids, tempAudioPath, artFiles, workerArg, unlinked>>
reasonVars == <<reasoningIsProcessing, rsPc, rsBusyAtCall, rsInference, rsOutcome>>
audioVars == <<isRecording, isProcessing, mediaRecorder, stateChange, recPc, settings, paPc,
               transcriptions, callbacks, paOutcome>>
appVars == <<artVars, reasonVars, audioVars>>
otherVars == <<closeEvent, progressVars, opVars, installVars, parseVars, matVars, locVars,
               resolveVars, appVars>>
vars == <<envVars, cacheVars, tvars, dvars, otherVars>>

(***************************************************************************)
(* Audio inputs (createTempAudioFile, lines 182-194).  An input is its     *)
(* representation, the number of audio bytes it stands for (byteLength)    *)
(* and, for a view, the length of the buffer under it (bufferLength).      *)
(***************************************************************************)
AudioInput(kind, byteLength, bufferLength) ==
    [kind |-> kind, byteLength |-> byteLength, bufferLength |-> bufferLength]

\* The base64 text of n bytes: four characters for every three bytes, the
\* last group padded with "=".
Base64Length(n) == 4 * ((n + 2) \div 3)
Base64Padding(n) == (3 - (n % 3)) % 3
\* Buffer.from(text, "base64").length.
Base64DecodedLength(chars, padding) == (chars * 3) \div 4 - padding

\* No file, no buffer.
NoFile == -1

\* Buffer.from(...).length for each accepted representation; NoFile: unsupported.
BufferFromLength(a) ==
    CASE a.kind = "ArrayBuffer"  -> a.byteLength            \* line 184
      [] a.kind = "Uint8Array"   -> a.byteLength            \* line 186: copies the view
      [] a.kind = "string"       ->                         \* line 188: base64 decode
            Base64DecodedLength(Base64Length(a.byteLength), Base64Padding(a.byteLength))
      [] a.kind = "bufferObject" -> a.bufferLength          \* line 190: the whole buffer
      [] OTHER                   -> NoFile                  \* line 193: throws

\* The audioBlob of an invocation that has not come to read it.
NotRead == AudioInput("not read", 0, 0)

\* The inputs the pipeline is called with.
PipelineInputs ==
    { AudioInput("ArrayBuffer", 0, 0),
      AudioInput("ArrayBuffer", 1, 1),
      AudioInput("other", 0, 0) }

\* The inputs that materialize to no bytes at all.
ZeroByteInput(a) == a.kind # "other" /\ a.byteLength = 0 /\ BufferFromLength(a) = 0

(***************************************************************************)
(* Text: a string is the sequence of its characters.                       *)
(***************************************************************************)
\* String.prototype.split("\n").
RECURSIVE SplitLines(_)
SplitLines(text) ==
    IF \A k \in 1..Len(text) : text[k] # "\n"
    THEN <<text>>
    ELSE LET k == CHOOSE j \in 1..Len(text) :
                      text[j] = "\n" /\ \A h \in 1..(j - 1) : text[h] # "\n"
         IN <<SubSeq(text, 1, k - 1)>> \o SplitLines(SubSeq(text, k + 1, Len(text)))

\* String.prototype.trim().
Whitespace == {" ", "\n"}
RECURSIVE Trim(_)
Trim(text) ==
    IF text = <<>> THEN text
    ELSE IF text[1] \in Whitespace THEN Trim(Tail(text))
    ELSE IF text[Len(text)] \in Whitespace THEN Trim(SubSeq(text, 1, Len(text) - 1))
    ELSE text

\* String.prototype.startsWith(prefix).
StartsWith(text, prefix) ==
    Len(text) >= Len(prefix) /\ SubSeq(text, 1, Len(prefix)) = prefix

\* String.prototype.substring(n), n counted from 0.
Substring(text, n) == SubSeq(text, n + 1, Len(text))

\* String.prototype.endsWith(suffix).
EndsWith(text, suffix) ==
    Len(text) >= Len(suffix)
        /\ SubSeq(text, Len(text) - Len(suffix) + 1, Len(text)) = suffix

\* The values of the members of a JSON object: undefined for a member that is
\* absent, a string with its characters, a number.
Undefined == [type |-> "undefined", chars |-> <<>>]
String(chars) == [type |-> "string", chars |-> chars]
Number == [type |-> "number", chars |-> <<>>]
Object(success, text, error) == [success |-> success, text |-> text, error |-> error]

\* The member lists of the objects in the model's texts.  A member list is one
\* character of a text, named by the JSON it stands for.
Members ==
    ("\"success\":true,\"text\":\" hi \"" :>
            Object("true", String(<<" ", "h", "i", " ">>), Undefined))
    @@ ("\"success\":true,\"text\":\"  \"" :>
            Object("true", String(<<" ", " ">>), Undefined))
    @@ ("\"success\":true,\"text\":\"\"" :> Object("true", String(<<>>), Undefined))
    @@ ("\"success\":true" :> Object("true", Undefined, Undefined))
    @@ ("\"text\":\"ok\"" :> Object("undefined", String(<<"o", "k">>), Undefined))
    @@ ("\"success\":true,\"text\":5" :> Object("true", Number, Undefined))
    @@ ("\"success\":false,\"error\":\"e\"" :>
            Object("false", Undefined, String(<<"e">>)))
    @@ ("\"success\":false,\"text\":\"hi\"" :>
            Object("false", String(<<"h", "i">>), Undefined))

\* JSON.parse on a text of digits, brackets and braces: a number, an array of
\* at most one value, or an object with one of the member lists.  JsonValid:
\* the text parses; JsonParse: what it parses to.
DigitChars == <<"0", "1", "2", "3", "4", "5", "6", "7", "8", "9">>
Digits == {DigitChars[k] : k \in 1..Len(DigitChars)}
DigitValue(c) == (CHOOSE k \in 1..Len(DigitChars) : DigitChars[k] = c) - 1
IsNumber(text) ==
    /\ text # <<>> /\ \A k \in 1..Len(text) : text[k] \in Digits
    /\ Len(text) > 1 => text[1] # "0"
RECURSIVE NumberValue(_)
NumberValue(text) ==
    IF text = <<>> THEN 0
    ELSE 10 * NumberValue(SubSeq(text, 1, Len(text) - 1)) + DigitValue(text[Len(text)])
RECURSIVE JsonValid(_)
JsonValid(text) ==
    \/ IsNumber(text)
    \/ /\ Len(text) >= 2
       /\ text[1] = "[" /\ text[Len(text)] = "]"
       /\ Len(text) = 2 \/ JsonValid(SubSeq(text, 2, Len(text) - 1))
    \/ /\ Len(text) \in {2, 3}
       /\ text[1] = "{" /\ text[Len(text)] = "}"
       /\ Len(text) = 3 => text[2] \in DOMAIN Members
RECURSIVE JsonParse(_)
JsonParse(text) ==
    IF IsNumber(text) THEN [json |-> "number", value |-> NumberValue(text)]
    ELSE IF text[1] = "{"
    THEN [json |-> "object",
          members |-> IF Len(text) = 2 THEN Object("undefined", Undefined, Undefined)
                      ELSE Members[text[2]]]
    ELSE IF Len(text) = 2 THEN [json |-> "array", items |-> <<>>]
    ELSE [json |-> "array", items |-> <<JsonParse(SubSeq(text, 2, Len(text) - 1))>>]


(***************************************************************************)
(* Results and errors.                                                     *)
(***************************************************************************)
NoOutcome == [kind |-> "none", err |-> "", diag |-> ""]
Returned(val) == [kind |-> "return", err |-> "", diag |-> val]
Threw(err, diag) == [kind |-> "throw", err |-> err, diag |-> diag]

Pending == [state |-> "pending", val |-> ""]
Resolved(val) == [state |-> "resolved", val |-> val]
Rejected(reason) == [state |-> "rejected", val |-> reason]

\* resolve()/reject() on a promise: only the first call settles it.
Settle(p, to) == IF p.state = "pending" THEN to ELSE p

Subprocesses == {"probe", "sysffmpeg", "check", "worker"}

(***************************************************************************)
(* findPythonExecutable (lines 546-621), by its result: a cached           *)
(* interpreter is returned without a probe; otherwise candidates are       *)
(* probed (the relative names of lines 580-584 are always spawned) and     *)
(* the first supported one is cached, or the not-found error is thrown.    *)
(***************************************************************************)
FindPython ==
    IF pythonCmd # Null
    THEN [ok |-> TRUE, cmd |-> pythonCmd, probed |-> FALSE]
    ELSE IF envPython
         THEN [ok |-> TRUE, cmd |-> "python3", probed |-> TRUE]
         ELSE [ok |-> FALSE, cmd |-> Null, probed |-> TRUE]

PythonNotFound == "Python 3.x not found"

(***************************************************************************)
(* findPythonExecutable (lines 546-621), step by step.  A candidate is a   *)
(* text; a directory path or a file name in it is one character.           *)
(***************************************************************************)
Resolves == 1..MaxResolves

RECURSIVE JoinChars(_)
\* The text as one string.
JoinChars(chars) == IF chars = <<>> THEN "" ELSE Head(chars) \o JoinChars(Tail(chars))

Quotes == {"\"", "'"}
\* Line 555: replace(/^["']|["']$/g, "").
StripQuotes(text) ==
    LET open == IF text # <<>> /\ Head(text) \in Quotes THEN Tail(text) ELSE text
    IN IF open # <<>> /\ open[Len(open)] \in Quotes
       THEN SubSeq(open, 1, Len(open) - 1) ELSE open

\* Lines 551-560: candidateSet is a Set, iterated in insertion order.
AddCandidate(candidateSet, candidate) ==
    IF candidate = <<>> THEN candidateSet                              \* line 552
    ELSE LET sanitized == StripQuotes(Trim(candidate))
         IN IF sanitized = <<>> THEN candidateSet                      \* line 556
            ELSE IF \E k \in 1..Len(candidateSet) : candidateSet[k] = sanitized
            THEN candidateSet
            ELSE Append(candidateSet, sanitized)

RECURSIVE AddCandidates(_, _)
\* candidates.forEach(addCandidate).
AddCandidates(candidateSet, candidates) ==
    IF candidates = <<>> THEN candidateSet
    ELSE AddCandidates(AddCandidate(candidateSet, Head(candidates)), Tail(candidates))

\* Lines 571-574 and 576-597, off Windows: one pyenv shim, one relative name
\* and one absolute path stand for the lists.
PyenvShims == << <<"/", "home/.pyenv/shims/", "python3">> >>
CommonCandidates == << <<"python3">>, <<"/", "usr/bin/", "python3">> >>

\* process.env.OPENWHISPR_PYTHON: unset, blank, or a quoted name that the
\* common candidates hold too.
Overrides == { <<>>, <<" ">>, <<" ", "\"", "python3", "\"">> }

\* Lines 563-598.
CandidateSet(env) ==
    AddCandidates(AddCandidates(IF env.override # <<>>                  \* line 563
                                THEN AddCandidate(<<>>, env.override) ELSE <<>>,
                                PyenvShims),
                  CommonCandidates)

\* path.isAbsolute, off Windows.
IsAbsolute(path) == path # <<>> /\ Head(path) = "/"

\* What a candidate is on the machine: whether the file exists, whether the
\* spawn fails ('error'), the exit code and the output of --version.
Response(exists, error, code, output) ==
    [exists |-> exists, error |-> error, code |-> code, output |-> output]
\* The machine's interpreters are 2.7 and 3.9, and 3.11 in /usr/bin; the one
\* on the PATH may be broken and exit with 1.
ResponsesOf(candidate) ==
    IF IsAbsolute(candidate)
    THEN { Response(FALSE, TRUE, 0, <<>>),                             \* no such file
           Response(TRUE, FALSE, 0, <<"Python ", "2", ".", "7">>),
           Response(TRUE, FALSE, 0,
                    IF candidate = CommonCandidates[2]
                    THEN <<"Python ", "3", ".", "1", "1">> ELSE <<"Python ", "3", ".", "9">>) }
    ELSE { Response(TRUE, TRUE, 0, <<>>),                              \* not on the PATH
           Response(TRUE, FALSE, 1, <<"Python ", "3", ".", "9">>),
           Response(TRUE, FALSE, 0, <<"Python ", "2", ".", "7">>),
           Response(TRUE, FALSE, 0, <<"Python ", "3", ".", "9">>) }

PyEnv(override, responses) == [override |-> override, responses |-> responses]
\* The names that can be candidates.
CandidateNames == {PyenvShims[1], CommonCandidates[1], CommonCandidates[2]}
PyEnvs ==
    {PyEnv(override, responses) :
        override \in Overrides,
        responses \in {f \in [CandidateNames -> UNION {ResponsesOf(c) : c \in CandidateNames}] :
                           \A c \in CandidateNames : f[c] \in ResponsesOf(c)}}
\* The environment of the specifications that resolve no interpreter step by step.
NoPyEnv == PyEnv(<<>>, <<>>)

\* No version: null.
NullVersion == [major |-> 0 - 1, minor |-> 0 - 1]

\* The digits at the head of the text.
RECURSIVE LeadingDigits(_)
LeadingDigits(text) ==
    IF text # <<>> /\ Head(text) \in Digits
    THEN <<Head(text)>> \o LeadingDigits(Tail(text)) ELSE <<>>

\* Line 707: output.match(/Python (\d+)\.(\d+)/i).
MatchVersion(output) ==
    IF output = <<>> \/ Head(output) # "Python " THEN NullVersion
    ELSE LET major == LeadingDigits(Tail(output))
             rest == SubSeq(output, 2 + Len(major), Len(output))
         IN IF major = <<>> \/ rest = <<>> \/ Head(rest) # "." THEN NullVersion
            ELSE LET minor == LeadingDigits(Tail(rest))
                 IN IF minor = <<>> THEN NullVersion
                    ELSE [major |-> NumberValue(major), minor |-> NumberValue(minor)]

\* Lines 697-715: the version, or null when the spawn failed, the exit code
\* is not 0 or the output holds no version.
GetPythonVersion(response) ==
    IF response.error THEN NullVersion                                 \* line 714
    ELSE IF response.code = 0 THEN MatchVersion(response.output)       \* lines 706-708
    ELSE NullVersion                                                   \* line 710

\* A check that takes any version for a supported one.
IsPythonVersionSupported_Any(version) == version # NullVersion

\* Lines 718-721.
IsPythonVersionSupported(version) == version # NullVersion /\ version.major = 3

\* A loop that skips no candidate.
Skipped_Never(env, candidate) == FALSE

\* Line 603: an absolute candidate that does not exist is skipped.
Skipped(env, candidate) == IsAbsolute(candidate) /\ ~env.responses[candidate].exists

\* A loop that takes the candidates from the last one.
NextCandidate_Last(env, from) ==
    LET candidateSet == CandidateSet(env)
        left == {k \in 1..Len(candidateSet) : ~Skipped(env, candidateSet[k])}
    IN IF left = {} \/ from > 1 THEN 0 ELSE CHOOSE k \in left : \A h \in left : k >= h

\* Lines 602-605: the position of the next candidate that is not skipped, from
\* position from on; 0: the loop ends.
NextCandidate(env, from) ==
    LET candidateSet == CandidateSet(env)
        left == {k \in from..Len(candidateSet) : ~Skipped(env, candidateSet[k])}
    IN IF left = {} THEN 0 ELSE CHOOSE k \in left : \A h \in left : k <= h

\* Some candidate is a supported interpreter.
Resolvable(env) ==
    \E k \in 1..Len(CandidateSet(env)) :
        /\ ~Skipped(env, CandidateSet(env)[k])
        /\ IsPythonVersionSupported(GetPythonVersion(env.responses[CandidateSet(env)[k]]))

(***************************************************************************)
(* getFFmpegPath (lines 218-296).                                          *)
(***************************************************************************)
FFmpegEnvs == {"unpacked", "asarSibling", "asarAlone", "system"}
UnpackedPath == "resources/app.asar.unpacked/node_modules/ffmpeg-static/ffmpeg"
AsarPath == "resources/app.asar/node_modules/ffmpeg-static/ffmpeg"
SystemFFmpeg == "ffmpeg"

GetFFmpegPath ==
    IF cachedFFmpegPath # Null
    THEN [path |-> cachedFFmpegPath, probed |-> FALSE]                 \* line 219
    ELSE CASE envFFmpeg = "unpacked" -> [path |-> UnpackedPath, probed |-> FALSE]
           [] envFFmpeg \in {"asarSibling", "asarAlone"}
                                     -> [path |-> AsarPath, probed |-> FALSE]
           [] OTHER                  -> [path |-> SystemFFmpeg, probed |-> TRUE]  \* lines 279-292

\* ffmpegPath.includes('app.asar') && !ffmpegPath.includes('app.asar.unpacked')
InArchiveRoot(path) == path = AsarPath
\* fs.existsSync(ffmpegPath.replace('app.asar', 'app.asar.unpacked'))
UnpackedSiblingExists == envFFmpeg \in {"unpacked", "asarSibling"}

(***************************************************************************)
(* getFFmpegPath (lines 218-296), step by step.  A path is the directory   *)
(* that holds node_modules/ffmpeg-static (root) and the binary's name.     *)
(***************************************************************************)
Path(root, name) == [root |-> root, name |-> name]
\* The path as the string that is cached and returned.
Render(path) == path.root \o "/node_modules/ffmpeg-static/" \o path.name
\* path.join of two segments.
JoinPath(a, b) == IF a = "" THEN b ELSE a \o "/" \o b

\* Lines 228, 252, 282.
BinaryName(win32) == IF win32 THEN "ffmpeg.exe" ELSE "ffmpeg"

ResourcesUnpacked == "resources/app.asar.unpacked"
ResourcesAsar == "resources/app.asar"
Project == "project"
\* path.join(__dirname, "..", "..", "app.asar.unpacked"), for the __dirname
\* of code that runs from the archive (resources/app.asar/src/helpers).
DirnameUnpacked == "resources/app.asar/app.asar.unpacked"

\* What require("ffmpeg-static") gives (line 239): it throws, or it is the
\* module's export, null on a platform the module has no binary for.
Required(kind, root, name) == [kind |-> kind, path |-> Path(root, name)]
RequireResults(win32) ==
    {Required("throws", "", ""), Required("null", "", "")}
    \cup {Required("path", root, name) :
              root \in {Project, ResourcesAsar},
              name \in IF win32 THEN {"ffmpeg", "ffmpeg.exe"} ELSE {"ffmpeg"}}

\* The directories that may hold the binary, under the platform's name.
BinaryRoots == {ResourcesUnpacked, ResourcesAsar, Project}

\* What a call reads of its environment: NODE_ENV and process.resourcesPath
\* (line 227), process.platform, the result of require, the files that exist
\* (fs.existsSync) and whether the binary may be executed (fs.accessSync).
LocateEnv(development, resourcesPath, win32, required, exists, executable) ==
    [development |-> development, resourcesPath |-> resourcesPath, win32 |-> win32,
     required |-> required, exists |-> exists, executable |-> executable]
\* Line 227.
Packaged(env) == ~env.development /\ env.resourcesPath # ""
LocateEnvs ==
    UNION {{LocateEnv(development, resourcesPath, win32, required, exists, executable) :
               required \in IF ~development /\ resourcesPath # ""
                            THEN {Required("path", Project, BinaryName(win32))}
                            ELSE RequireResults(win32),
               exists \in SUBSET BinaryRoots, executable \in BOOLEAN} :
           development \in BOOLEAN, resourcesPath \in {"", "resources"},
           win32 \in BOOLEAN}
\* No getFFmpegPath call has read its environment.
NoEnv == LocateEnv(FALSE, "not read", FALSE, Required("null", "", ""), {}, FALSE)

\* fs.existsSync(path).
ExistsSync(env, path) == path.root \in env.exists /\ path.name = BinaryName(env.win32)

\* Line 250: ffmpegPath.replace("app.asar", "app.asar.unpacked"), the first
\* occurrence only.
ReplaceAsar(path) ==
    CASE path.root = ResourcesAsar     -> Path(ResourcesUnpacked, path.name)
      [] path.root = ResourcesUnpacked -> Path(ResourcesUnpacked \o ".unpacked", path.name)
      [] OTHER                         -> path
\* Line 251: ffmpegPath.replace(/.*app\.asar/, ...), up to the last occurrence.
ReplaceUpToAsar(path) ==
    CASE path.root = ResourcesAsar     -> Path(DirnameUnpacked, path.name)
      [] path.root = ResourcesUnpacked -> Path(DirnameUnpacked \o ".unpacked", path.name)
      [] OTHER                         -> path
\* Lines 249-253.
PossiblePaths(env, path) ==
    << ReplaceAsar(path),
       ReplaceUpToAsar(path),
       Path(JoinPath(env.resourcesPath, "app.asar.unpacked"), BinaryName(env.win32)) >>

\* The outcome of the try block of lines 225-278: the path, or what was thrown.
Found(path) == [thrown |-> "none", path |-> path]
Thrown(error) == [thrown |-> error, path |-> Path("", "")]

\* Lines 227-245.
PrimaryPath(env) ==
    IF Packaged(env)
    THEN Found(Path(JoinPath(env.resourcesPath, "app.asar.unpacked"), BinaryName(env.win32)))
    ELSE CASE env.required.kind = "throws" -> Thrown("require")          \* line 239
           \* null.endsWith (line 242) or, past existsSync(null), null.replace (line 250)
           [] env.required.kind = "null"   -> Thrown("TypeError")
           [] OTHER ->
                IF env.win32 /\ env.required.path.name # "ffmpeg.exe"     \* line 242
                THEN Found(Path(env.required.path.root, "ffmpeg.exe"))
                ELSE Found(env.required.path)

\* Lines 248-264: the first alternative that exists, if the path does not.
WithAlternatives(env, path) ==
    IF ExistsSync(env, path) THEN path
    ELSE LET possiblePaths == PossiblePaths(env, path)
             found == {k \in 1..Len(possiblePaths) : ExistsSync(env, possiblePaths[k])}
         IN IF found = {} THEN path
            ELSE possiblePaths[CHOOSE k \in found : \A h \in found : k <= h]

\* A lookup that does not ask whether the binary may be executed.
BundledFFmpeg_NoAccessCheck(env) ==
    LET primary == PrimaryPath(env)
    IN IF primary.thrown # "none" THEN primary
       ELSE LET ffmpegPath == WithAlternatives(env, primary.path)
            IN IF ~ExistsSync(env, ffmpegPath) THEN Thrown("not found")
               ELSE Found(ffmpegPath)

\* Lines 225-278.
BundledFFmpeg(env) ==
    LET primary == PrimaryPath(env)
    IN IF primary.thrown # "none" THEN primary
       ELSE LET ffmpegPath == WithAlternatives(env, primary.path)
            IN IF ~ExistsSync(env, ffmpegPath) THEN Thrown("not found")         \* line 268
               ELSE IF ~env.executable THEN Thrown("not executable")           \* line 276
               ELSE Found(ffmpegPath)

\* What a call ended with: the path returned or the error thrown, the error
\* the catch of line 279 caught and how the probe of line 285 ended.
LocateResult(kind, path, caught, probe) ==
    [kind |-> kind, path |-> path, caught |-> caught, probe |-> probe]

Locates == 1..MaxLocates

\* The call has not ended.
NoLocateResult == LocateResult("none", Null, "none", "none")

ProbeOutcomes == {"resolved", "rejected"}

\* A probe whose rejection leaves the call.
SystemProbeResult_Rethrows(systemFFmpeg, caught, probe) ==
    IF probe = "rejected" THEN LocateResult("throw", Null, caught, probe)
    ELSE LocateResult("return", systemFFmpeg, caught, probe)

\* Lines 284-295: the system name is the path, however the probe ended.
SystemProbeResult(systemFFmpeg, caught, probe) ==
    LocateResult("return", systemFFmpeg, caught, probe)

(***************************************************************************)
(* checkFFmpegAvailability (lines 852-935).                                *)
(***************************************************************************)
CheckResult(available, error) == [available |-> available, error |-> error]
\* null: no result yet (the cache's initial value, line 21).
NullCheck == [available |-> FALSE, error |-> Null]

\* How the check process ends, and what the close/error handlers resolve with.
CheckOutcomes == {"okTrue", "okFalse", "okFalseNoError", "badJson", "exitNonZero", "spawnError"}
CheckResultOf(o) ==
    CASE o = "okTrue"         -> CheckResult(TRUE, "")                      \* line 904
      [] o = "okFalse"        -> CheckResult(FALSE, "ffmpeg not found")     \* line 904
      [] o = "okFalseNoError" -> CheckResult(FALSE, "")                     \* line 904
      [] o = "badJson"        -> CheckResult(FALSE, "Failed to parse FFmpeg check result")
      [] o = "exitNonZero"    -> CheckResult(FALSE, "FFmpeg check failed")  \* line 916
      [] OTHER                -> CheckResult(FALSE, "spawn ENOENT")         \* line 922

(***************************************************************************)
(* cancelDownload calls.  A call is remembered with what it found and did: *)
(* the handle it read (target), whether a download process was live then  *)
(* (liveAtCall), what it returned, its 3-second timer, whether the target  *)
(* was still running when the timer fired (aliveAtExpiry) and the process  *)
(* the timer sent SIGKILL to (forced).                                     *)
(***************************************************************************)
\* The model operations that are one request and one response.
ModelOps == {"check", "list", "delete"}
\* Their promises: a rejection's message may include the captured stderr.
OpPending == [state |-> "pending", val |-> "", stderr |-> ""]
OpResolved(val) == [state |-> "resolved", val |-> val, stderr |-> ""]
OpRejected(message, stderr) == [state |-> "rejected", val |-> message, stderr |-> stderr]
\* The process of the operation has not closed.
NoExit == [closed |-> FALSE, code |-> 0, stdoutOk |-> FALSE]

\* What parseWhisperResult returns ({success: true, text}, or {success: false,
\* message}) or throws (an Error with this message).
ParseSuccess(text) == [kind |-> "return", success |-> TRUE, text |-> text, message |-> ""]
ParseSoft(message) == [kind |-> "return", success |-> FALSE, text |-> <<>>, message |-> message]
ParseThrew(message) == [kind |-> "throw", success |-> FALSE, text |-> <<>>, message |-> message]
NotParsed == [kind |-> "none", success |-> FALSE, text |-> <<>>, message |-> ""]

\* An error message of pip, by what the installer looks for in it: the
\* signatures of lines 31-49 and of lines 55-61, and the ANSI colour sequences
\* of line 28.  The signature fields say what the text holds once the colour
\* sequences are out, which is where the code looks for them.
Message(permission, toml) ==
    [permission |-> permission, toml |-> toml, visualCpp |-> FALSE, noMatch |-> FALSE,
     ansi |-> FALSE]
NoMessage == Message(FALSE, FALSE)

\* The message of an error: a text of the installer, or a message of pip.
Fixed(text) == [text |-> text, message |-> NoMessage]
Original(message) == [text |-> "original", message |-> message]
NoError == Fixed("")
BuildToolsRequired == Fixed("Microsoft Visual C++ build tools required")
PythonIncompatible == Fixed("Python version incompatible")

\* The latest step handled no 'close' event of a download process.
NoClose == [process |-> NoProcess, code |-> 0]

NotCalled ==
    [called |-> FALSE, target |-> NoProcess, liveAtCall |-> FALSE, result |-> NoOutcome,
     timer |-> "none", aliveAtExpiry |-> FALSE, forced |-> NoProcess]

InitWith(env) ==
    /\ envPython \in BOOLEAN
    /\ envFFmpeg \in FFmpegEnvs
    /\ pyEnv = env
    /\ resKind = [r \in Resolves |-> "none"]
    /\ resPc = [r \in Resolves |-> "idle"]
    /\ resIndex = [r \in Resolves |-> 0]
    /\ resSpawned = [r \in Resolves |-> <<>>]
    /\ resResult = [r \in Resolves |-> NoOutcome]
    /\ lastSuccess = Null
    /\ clearPending = FALSE
    /\ resExpected = [r \in Resolves |-> Null]
    /\ resAfterClear = [r \in Resolves |-> FALSE]
    /\ artPc = [i \in Calls |-> "idle"]
    /\ uuids = {}
    /\ tempAudioPath = [i \in Calls |-> NoPath]
    /\ artFiles = {}
    /\ workerArg = [i \in Calls |-> NoPath]
    /\ unlinked = [i \in Calls |-> NoPath]
    /\ reasoningIsProcessing = FALSE
    /\ rsPc = [c \in Reasonings |-> "idle"]
    /\ rsBusyAtCall = [c \in Reasonings |-> FALSE]
    /\ rsInference = [c \in Reasonings |-> FALSE]
    /\ rsOutcome = [c \in Reasonings |-> NoOutcome]
    /\ isRecording = FALSE
    /\ isProcessing = FALSE
    /\ mediaRecorder = NoRecorder
    /\ stateChange = <<>>
    /\ recPc = [k \in Recordings |-> "idle"]
    /\ settings = [k \in Recordings |-> Settings(FALSE, FALSE, FALSE)]
    /\ paPc = [k \in Recordings |-> "none"]
    /\ transcriptions = [k \in Recordings |-> <<>>]
    /\ callbacks = [k \in Recordings |-> <<>>]
    /\ paOutcome = [k \in Recordings |-> NoOutcome]
    /\ pythonCmd = Null
    /\ cachedFFmpegPath = Null
    /\ cachedFFmpegAvailability = NullCheck
    /\ currentDownloadProcess = NoProcess
    /\ dlState = [p \in Downloads |-> "none"]
    /\ killed = [p \in Downloads |-> FALSE]
    /\ signals = [p \in Downloads |-> <<>>]
    /\ dlTimer = [p \in Downloads |-> "none"]
    /\ dlKillTimer = [p \in Downloads |-> "none"]
    /\ dlPromise = [p \in Downloads |-> Pending]
    /\ closeEvent = NoClose
    /\ stderrWritten = <<>>
    /\ stderrPipe = <<>>
    /\ progressCalls = <<>>
    /\ opState = [op \in ModelOps |-> "none"]
    /\ opStderr = [op \in ModelOps |-> ""]
    /\ opExit = [op \in ModelOps |-> NoExit]
    /\ opPromise = [op \in ModelOps |-> OpPending]
    /\ platform = Null
    /\ installPc = "idle"
    /\ attempts = <<>>
    /\ upgradeError = NoMessage
    /\ installOutcome = NoOutcome
    /\ installError = NoError
    /\ parseInput = <<>>
    /\ parseOutput = NotParsed
    /\ matPc = "idle"
    /\ matInput = NotRead
    /\ matBuffer = NoFile
    /\ matFile = NoFile
    /\ matOutcome = NoOutcome
    /\ locPc = [l \in Locates |-> "idle"]
    /\ locEnv = NoEnv
    /\ locCaught = [l \in Locates |-> "none"]
    /\ locResults = <<>>
    /\ locReturn = [l \in Locates |-> NoLocateResult]
    /\ locBegan = [l \in Locates |-> 0]
    /\ locFs = [l \in Locates |-> FALSE]
    /\ cancels = [c \in Cancels |-> NotCalled]
    /\ files = {}
    /\ pc = [i \in Calls |-> "idle"]
    /\ audio = [i \in Calls |-> NotRead]
    /\ ffmpegCheck = [i \in Calls |-> NullCheck]
    /\ cacheHit = [i \in Calls |-> FALSE]
    /\ effects = [i \in Calls |-> {}]
    /\ outcome = [i \in Calls |-> NoOutcome]
    /\ worker = [i \in Calls |-> "none"]
    /\ timer = [i \in Calls |-> "none"]
    /\ isResolved = [i \in Calls |-> FALSE]
    /\ promise = [i \in Calls |-> Pending]
    /\ settleCalls = [i \in Calls |-> 0]
    /\ firstEvent = [i \in Calls |-> "none"]
    /\ termSent = [i \in Calls |-> FALSE]

\* The state after construction (lines 12-22).
Init == InitWith(NoPyEnv)

(***************************************************************************)
(* transcribeLocalWhisper (lines 113-172).                                 *)
(***************************************************************************)
\* A cache of the availability that is never read.
CachedAvailability_Never(check) == FALSE

\* Line 854: this.cachedFFmpegAvailability !== null.
CachedAvailability(check) == check # NullCheck

\* The call, up to the first suspension inside checkFFmpegAvailability
\* (line 125).  Lines 854-857: a cached result is returned as it is.
\* Lines 859-880: without one, the interpreter and the decoder path are
\* resolved and the check process is spawned; an interpreter that is not found
\* is caught at line 929 and cached as an unavailable result.
TranscribeLocalWhisper(i) ==
    /\ pc[i] = "idle"
    /\ \A j \in Calls : j < i => pc[j] # "idle"    \* invocations are numbered in call order
    /\ UNCHANGED audio
    /\ IF CachedAvailability(cachedFFmpegAvailability)
       THEN /\ ffmpegCheck' = [ffmpegCheck EXCEPT ![i] = cachedFFmpegAvailability]
            /\ cacheHit' = [cacheHit EXCEPT ![i] = TRUE]
            /\ pc' = [pc EXCEPT ![i] = "gate"]
            /\ UNCHANGED <<cacheVars, effects>>
       ELSE LET py == FindPython
                ff == GetFFmpegPath
                probes == IF py.probed THEN {"probe"} ELSE {}
            IN /\ UNCHANGED cacheHit
               /\ IF ~py.ok
                  THEN /\ cachedFFmpegAvailability' = CheckResult(FALSE, PythonNotFound)
                       /\ ffmpegCheck' =
                              [ffmpegCheck EXCEPT ![i] = CheckResult(FALSE, PythonNotFound)]
                       /\ effects' = [effects EXCEPT ![i] = @ \cup probes]
                       /\ pc' = [pc EXCEPT ![i] = "gate"]
                       /\ UNCHANGED <<pythonCmd, cachedFFmpegPath>>
                  ELSE /\ pythonCmd' = py.cmd
                       /\ cachedFFmpegPath' = ff.path
                       /\ effects' = [effects EXCEPT ![i] =
                              @ \cup probes \cup (IF ff.probed THEN {"sysffmpeg"} ELSE {})
                                \cup {"check"}]
                       /\ pc' = [pc EXCEPT ![i] = "ffchecking"]
                       /\ UNCHANGED <<cachedFFmpegAvailability, ffmpegCheck>>
    /\ UNCHANGED <<envVars, files, outcome, runVars, dvars>>

\* checkFFmpegAvailability, lines 893-928: the check process closed or failed
\* to start; the result is cached and returned.
CheckFFmpegDone(i, o) ==
    /\ pc[i] = "ffchecking"
    /\ cachedFFmpegAvailability' = CheckResultOf(o)
    /\ ffmpegCheck' = [ffmpegCheck EXCEPT ![i] = CheckResultOf(o)]
    /\ pc' = [pc EXCEPT ![i] = "gate"]
    /\ UNCHANGED <<envVars, pythonCmd, cachedFFmpegPath, files, audio, cacheHit, effects,
                   outcome, runVars, dvars>>

\* A gate that lets every check result through.
FFmpegGateFails_Never(check) == FALSE

\* Line 130: !ffmpegCheck.available.
FFmpegGateFails(check) == ~check.available

\* A size check that accepts the empty file.
StatSizeIsEmpty_Never(size) == FALSE

\* Line 210: stats.size === 0.
StatSizeIsEmpty(size) == size = 0

\* Lines 126-140: the await of line 125 continues.  Lines 130-133 fail fast
\* when the decoder is unavailable.  Otherwise createTempAudioFile (lines
\* 174-216) is called at line 136, before the try of line 143: an error
\* thrown by it leaves transcribeLocalWhisper at once, past the finally.
\* The argument a is the invocation's audioBlob: nothing before line 183
\* depends on it, so it is drawn where createTempAudioFile reads it.
CreateTempAudioFile(i, a) ==
    /\ pc[i] = "gate"
    /\ audio' = [audio EXCEPT ![i] = IF FFmpegGateFails(ffmpegCheck[i]) THEN @ ELSE a]
    /\ LET size == BufferFromLength(a)
       IN IF FFmpegGateFails(ffmpegCheck[i])
          THEN /\ outcome' = [outcome EXCEPT ![i] =
                      Threw("FFmpeg not available",
                            IF ffmpegCheck[i].error # "" THEN ffmpegCheck[i].error
                            ELSE "Unknown error")]
               /\ pc' = [pc EXCEPT ![i] = "done"]
               /\ UNCHANGED <<files, effects>>
          ELSE IF size < 0
          THEN /\ outcome' = [outcome EXCEPT ![i] = Threw("Unsupported audio data type", "")]
               /\ pc' = [pc EXCEPT ![i] = "done"]                      \* line 193
               /\ UNCHANGED <<files, effects>>
          ELSE /\ files' = files \cup {i}                              \* line 198
               /\ effects' = [effects EXCEPT ![i] = @ \cup {"write"}]
               /\ IF StatSizeIsEmpty(size)
                  THEN /\ outcome' = [outcome EXCEPT ![i] = Threw("Audio file is empty", "")]
                       /\ pc' = [pc EXCEPT ![i] = "done"]              \* line 212
                  ELSE /\ pc' = [pc EXCEPT ![i] = "run"]
                       /\ UNCHANGED outcome
    /\ UNCHANGED <<envVars, cacheVars, ffmpegCheck, cacheHit, runVars, dvars>>

\* cleanupTempFile (lines 538-544): unlink the file at this path.
CleanupTempFile(fs, path) == fs \ {path}

(***************************************************************************)
(* runWhisperProcess (lines 298-492).                                      *)
(***************************************************************************)
\* What the worker prints on stdout when it exits with code 0, by what
\* parseWhisperResult (lines 494-536) makes of it.
StdoutKinds == {"text", "noSpeech", "garbage"}
WorkerStdout(kind) ==
    CASE kind = "text"     -> <<"{", "\"success\":true,\"text\":\" hi \"", "}", "\n">>
      [] kind = "noSpeech" -> <<"{", "\"success\":true,\"text\":\"  \"", "}", "\n">>
      [] OTHER             -> <<"x", "\n">>

\* A test that takes no text for blank.
IsBlank_Never(chars) == FALSE

\* text.trim().length === 0 (lines 498 and 523).
IsBlank(chars) == Trim(chars) = <<>>

\* Lines 502-508: the first line that, trimmed, starts with { and ends with };
\* the empty string when there is none.
RECURSIVE FindJsonLine(_)
FindJsonLine(lines) ==
    IF lines = <<>> THEN <<>>
    ELSE LET trimmed == Trim(Head(lines))
         IN IF StartsWith(trimmed, <<"{">>) /\ EndsWith(trimmed, <<"}">>)
            THEN trimmed
            ELSE FindJsonLine(Tail(lines))

ParseFailed == "Failed to parse Whisper output"
NoTextMessage == "Transcription produced no text (possible audio issue or model failure)"

\* parseWhisperResult (lines 494-536).  Every error thrown inside the try,
\* the TypeError of text.trim on a value that is not a string included, is
\* caught at line 532 and thrown again as the parse failure.
ParseWhisperResult(stdout) ==
    LET lines == SelectSeq(SplitLines(stdout), LAMBDA line : ~IsBlank(line))   \* line 498
        jsonLine == FindJsonLine(lines)
    IN IF jsonLine = <<>> THEN ParseThrew(ParseFailed)                         \* line 511
       ELSE IF ~JsonValid(jsonLine) THEN ParseThrew(ParseFailed)               \* line 514
       ELSE LET result == JsonParse(jsonLine).members
                text == result.text
            IN IF result.success = "false"                                     \* line 517
               THEN ParseSoft(IF result.error.type = "string" /\ result.error.chars # <<>>
                              THEN "result.error" ELSE "Transcription failed")
               ELSE IF text.type = "undefined"
                       \/ (text.type = "string" /\ text.chars = <<>>)        \* !result.text
               THEN ParseSoft(NoTextMessage)
               ELSE IF text.type # "string" THEN ParseThrew(ParseFailed)       \* line 523
               ELSE IF IsBlank(text.chars) THEN ParseSoft(NoTextMessage)
               ELSE ParseSuccess(Trim(text.chars))                             \* line 531

\* What transcribeLocalWhisper makes of it (line 146).
ParseOutcome(r) ==
    IF r.kind = "throw" THEN Threw(r.message, "")
    ELSE Returned(IF r.success THEN "success:true" ELSE "success:false")

TimeoutError == "Whisper transcription timed out"
ExitError == "Whisper transcription failed"
SpawnError == "Whisper process error"

\* Lines 302-390: resolve the interpreter, check the script, then the promise
\* executor: resolve the decoder path, build the environment, spawn the worker
\* and arm the timer.  Line 343 assigns to the const ffmpegPath of line 317:
\* a TypeError inside the async executor, which rejects the executor's own
\* promise and leaves the promise of line 315 without resolve or reject.
\* An error thrown before the promise exists (lines 302-307) goes through the
\* catch of line 162 and the finally of line 166, which unlinks the file.
RunWhisperProcess(i, scriptExists) ==
    /\ pc[i] = "run"
    /\ LET py == FindPython
           ff == GetFFmpegPath
       IN IF ~py.ok
          THEN /\ outcome' = [outcome EXCEPT ![i] = Threw(PythonNotFound, "")]
               /\ effects' = [effects EXCEPT ![i] = @ \cup {"probe"}]
               /\ files' = CleanupTempFile(files, i)
               /\ pc' = [pc EXCEPT ![i] = "done"]
               /\ UNCHANGED <<cacheVars, runVars>>
          ELSE /\ pythonCmd' = py.cmd
               /\ files' = IF scriptExists THEN files ELSE CleanupTempFile(files, i)
               /\ effects' = [effects EXCEPT ![i] =
                      @ \cup (IF py.probed THEN {"probe"} ELSE {})
                        \cup (IF scriptExists /\ ff.probed THEN {"sysffmpeg"} ELSE {})
                        \cup (IF scriptExists /\ ~(InArchiveRoot(ff.path) /\ UnpackedSiblingExists)
                              THEN {"worker"} ELSE {})]
               /\ IF ~scriptExists
                  THEN /\ outcome' = [outcome EXCEPT ![i] = Threw("Whisper script not found", "")]
                       /\ pc' = [pc EXCEPT ![i] = "done"]                    \* line 306
                       /\ UNCHANGED <<cachedFFmpegPath, cachedFFmpegAvailability, runVars>>
                  ELSE /\ cachedFFmpegPath' = ff.path
                       /\ pc' = [pc EXCEPT ![i] = "await"]
                       /\ IF InArchiveRoot(ff.path) /\ UnpackedSiblingExists
                          THEN UNCHANGED runVars                             \* line 343 throws
                          ELSE /\ worker' = [worker EXCEPT ![i] = "running"] \* line 386
                               /\ timer' = [timer EXCEPT ![i] = "armed"]     \* line 397
                               /\ UNCHANGED <<isResolved, promise, settleCalls, firstEvent,
                                              termSent>>
                       /\ UNCHANGED <<cachedFFmpegAvailability, outcome>>
    /\ UNCHANGED <<envVars, audio, ffmpegCheck, cacheHit, dvars>>

\* A clearTimeout that was left out.
ClearTimeout_Forgotten(t) == t

\* clearTimeout(timeout), lines 430 and 468: a timer that has fired stays fired.
ClearTimeout(t) == IF t = "armed" THEN "cleared" ELSE t

First(i, event) == IF firstEvent[i] = "none" THEN event ELSE firstEvent[i]

\* Lines 397-402: the timer's callback.
TimeoutFires(i) ==
    /\ timer[i] = "armed"
    /\ timer' = [timer EXCEPT ![i] = "fired"]
    /\ firstEvent' = [firstEvent EXCEPT ![i] = First(i, "timeout")]
    /\ IF ~isResolved[i]
       THEN /\ termSent' = [termSent EXCEPT ![i] = TRUE]                     \* line 399
            /\ promise' = [promise EXCEPT ![i] = Settle(@, Rejected(TimeoutError))]
            /\ settleCalls' = [settleCalls EXCEPT ![i] = @ + 1]
       ELSE UNCHANGED <<termSent, promise, settleCalls>>
    /\ UNCHANGED <<envVars, cacheVars, files, callVars, worker, isResolved, dvars>>

\* Lines 427-463: the 'close' handler.  The process closes on its own, after
\* a spawn failure, or after the SIGTERM of the timer.
WorkerClose(i, code, stdout) ==
    /\ worker[i] \in {"running", "errored"}
    /\ worker[i] = "errored" => code # 0
    /\ worker' = [worker EXCEPT ![i] = "closed"]
    /\ firstEvent' = [firstEvent EXCEPT ![i] = First(i, "close")]
    /\ IF isResolved[i]
       THEN UNCHANGED <<isResolved, timer, promise, settleCalls>>            \* line 428
       ELSE /\ isResolved' = [isResolved EXCEPT ![i] = TRUE]
            /\ timer' = [timer EXCEPT ![i] = ClearTimeout(@)]
            /\ promise' = [promise EXCEPT ![i] =
                   Settle(@, IF code = 0 THEN Resolved(stdout) ELSE Rejected(ExitError))]
            /\ settleCalls' = [settleCalls EXCEPT ![i] = @ + 1]
    /\ UNCHANGED <<envVars, cacheVars, files, callVars, termSent, dvars>>

\* Lines 465-490: the 'error' handler (the worker could not be spawned).
WorkerError(i) ==
    /\ worker[i] = "running"
    /\ worker' = [worker EXCEPT ![i] = "errored"]
    /\ firstEvent' = [firstEvent EXCEPT ![i] = First(i, "error")]
    /\ IF isResolved[i]
       THEN UNCHANGED <<isResolved, timer, promise, settleCalls>>            \* line 466
       ELSE /\ isResolved' = [isResolved EXCEPT ![i] = TRUE]
            /\ timer' = [timer EXCEPT ![i] = ClearTimeout(@)]
            /\ promise' = [promise EXCEPT ![i] = Settle(@, Rejected(SpawnError))]
            /\ settleCalls' = [settleCalls EXCEPT ![i] = @ + 1]
    /\ UNCHANGED <<envVars, cacheVars, files, callVars, termSent, dvars>>

\* Lines 145-171: the await of line 145 continues once the promise is settled;
\* the result is parsed, an error is rethrown; either way the finally block
\* unlinks the temporary file before the invocation returns or throws.
AwaitRunWhisperProcess(i) ==
    /\ pc[i] = "await"
    /\ promise[i].state # "pending"
    /\ outcome' = [outcome EXCEPT ![i] =
           IF promise[i].state = "resolved"
           THEN ParseOutcome(ParseWhisperResult(WorkerStdout(promise[i].val)))
           ELSE Threw(promise[i].val, "")]
    /\ files' = CleanupTempFile(files, i)
    /\ pc' = [pc EXCEPT ![i] = "done"]
    /\ UNCHANGED <<envVars, cacheVars, audio, ffmpegCheck, cacheHit, effects,
                   runVars, dvars>>

ExitCodes == {0, 1}

Next ==
    /\ \/ \E i \in Calls : TranscribeLocalWhisper(i)
       \/ \E i \in Calls, o \in CheckOutcomes : CheckFFmpegDone(i, o)
       \/ \E i \in Calls, a \in PipelineInputs : CreateTempAudioFile(i, a)
       \/ \E i \in Calls, scriptExists \in BOOLEAN : RunWhisperProcess(i, scriptExists)
       \/ \E i \in Calls : TimeoutFires(i)
       \/ \E i \in Calls, code \in ExitCodes, stdout \in StdoutKinds :
              WorkerClose(i, code, stdout)
       \/ \E i \in Calls : WorkerError(i)
       \/ \E i \in Calls : AwaitRunWhisperProcess(i)
    /\ UNCHANGED otherVars

Spec == Init /\ [][Next]_vars

\* Calls that callers make one after the other: a call begins when no other
\* call is under way.
NextSequential ==
    /\ Next
    /\ \A i \in Calls :
           (pc[i] = "idle" /\ pc'[i] # "idle")
               => \A j \in Calls \ {i} : pc[j] \in {"idle", "done"}

SpecSequential == Init /\ [][NextSequential]_vars

(***************************************************************************)
(* downloadWhisperModel (lines 1026-1125) and cancelDownload (1127-1147).  *)
(***************************************************************************)
\* subprocess.kill(signal) on process p.  The signal is delivered, and the
\* killed flag of the ChildProcess set, while the process runs; kill() on a
\* process that has gone returns false and changes nothing.
Delivered(p) == dlState[p] = "running"
KillSignals(p, sig) == IF Delivered(p) THEN [signals EXCEPT ![p] = Append(@, sig)] ELSE signals
KillKilled(p) == IF Delivered(p) THEN [killed EXCEPT ![p] = TRUE] ELSE killed

DownloadTimeout == "Model download timed out (20 minutes)"
DownloadInterrupted == "Download interrupted by user"
DownloadFailed == "Model download failed"
DownloadParseError == "Failed to parse download result"
DownloadProcessError == "Model download process error"

\* The exit codes a download process closes with; NullCode is the null of a
\* process that a signal ended.
NullCode == -1
CloseCodes == {0, 1, 137, 143, NullCode}

\* A 'close' handler that reports a killed download as a plain failure.
DownloadCloseResult_NoInterrupt(code, stdoutOk) ==
    IF code = 0
    THEN IF stdoutOk THEN Resolved("result") ELSE Rejected(DownloadParseError)
    ELSE Rejected(DownloadFailed)

\* Lines 1078-1098: what the 'close' handler settles the promise with.
DownloadCloseResult(code, stdoutOk) ==
    IF code = 0
    THEN IF stdoutOk THEN Resolved("result") ELSE Rejected(DownloadParseError)
    ELSE IF code = 143 \/ code = 137 \/ code = NullCode
         THEN Rejected(DownloadInterrupted)
         ELSE Rejected(DownloadFailed)

\* Lines 1027-1041 and 1101-1120: resolve the interpreter (line 1028 throws
\* when there is none), spawn the download process, store it in
\* currentDownloadProcess and arm the 20-minute timer.  A process that could
\* not be spawned emits 'error' on the next tick, before any other handler
\* runs: lines 1101-1105 clear the handle and reject.
DownloadWhisperModel(p, spawnOk) ==
    /\ dlState[p] = "none"
    /\ \A q \in Downloads : q < p => dlState[q] # "none"     \* numbered in call order
    /\ LET py == FindPython
       IN IF ~py.ok
          THEN /\ dlState' = [dlState EXCEPT ![p] = "closed"]
               /\ dlPromise' = [dlPromise EXCEPT ![p] = Rejected(PythonNotFound)]
               /\ UNCHANGED <<pythonCmd, currentDownloadProcess, dlTimer>>
          ELSE /\ pythonCmd' = py.cmd
               /\ dlTimer' = [dlTimer EXCEPT ![p] = "armed"]
               /\ IF spawnOk
                  THEN /\ dlState' = [dlState EXCEPT ![p] = "running"]
                       /\ currentDownloadProcess' = p                        \* line 1041
                       /\ UNCHANGED dlPromise
                  ELSE /\ dlState' = [dlState EXCEPT ![p] = "errored"]
                       /\ currentDownloadProcess' = NoProcess                \* line 1102
                       /\ dlPromise' = [dlPromise EXCEPT ![p] =
                              Settle(@, Rejected(DownloadProcessError))]
    /\ UNCHANGED <<envVars, cachedFFmpegPath, cachedFFmpegAvailability, tvars,
                   killed, signals, dlKillTimer, cancels>>

\* Lines 1075-1099 and 1117-1119: the two 'close' handlers.
DownloadClose(p, code, stdoutOk) ==
    /\ dlState[p] \in {"running", "errored"}
    /\ code # 0 => stdoutOk                                  \* stdout is read at code 0 only
    /\ dlState[p] = "errored" => code = 1
    /\ dlState' = [dlState EXCEPT ![p] = "closed"]
    /\ currentDownloadProcess' = NoProcess                                   \* line 1076
    /\ dlPromise' = [dlPromise EXCEPT ![p] = Settle(@, DownloadCloseResult(code, stdoutOk))]
    /\ dlTimer' = [dlTimer EXCEPT ![p] = ClearTimeout(@)]                    \* line 1118
    /\ UNCHANGED <<envVars, cacheVars, tvars, killed, signals, dlKillTimer, cancels>>

\* Lines 1107-1115: the 20-minute timer's callback.
DownloadTimeoutFires(p) ==
    /\ dlTimer[p] = "armed"
    /\ dlTimer' = [dlTimer EXCEPT ![p] = "fired"]
    /\ signals' = KillSignals(p, "SIGTERM")                                  \* line 1108
    /\ killed' = KillKilled(p)
    /\ dlKillTimer' = [dlKillTimer EXCEPT ![p] = "armed"]                    \* line 1109
    /\ dlPromise' = [dlPromise EXCEPT ![p] = Settle(@, Rejected(DownloadTimeout))]
    /\ UNCHANGED <<envVars, cacheVars, tvars, currentDownloadProcess, dlState, cancels>>

\* Lines 1109-1113: the 5-second timer's callback.
DownloadKillTimerFires(p) ==
    /\ dlKillTimer[p] = "armed"
    /\ dlKillTimer' = [dlKillTimer EXCEPT ![p] = "fired"]
    /\ IF ~killed[p]
       THEN /\ signals' = KillSignals(p, "SIGKILL")
            /\ killed' = KillKilled(p)
       ELSE UNCHANGED <<signals, killed>>
    /\ UNCHANGED <<envVars, cacheVars, tvars, currentDownloadProcess, dlState, dlTimer,
                   dlPromise, cancels>>

\* Line 1139.
CancelSuccess == Returned("success:true, message: Download cancelled")
CancelNoActive == Returned("success:false, error: No active download to cancel")

\* A cancelDownload that throws when there is nothing to cancel.
NoActiveDownload_Thrown == Threw("No active download to cancel", "")

\* Line 1145: the else branch returns the failure outcome.
NoActiveDownload == CancelNoActive

\* cancelDownload, lines 1127-1147.
CancelDownload(c) ==
    /\ ~cancels[c].called
    /\ \A b \in Cancels : b < c => cancels[b].called           \* numbered in call order
    /\ LET h == currentDownloadProcess
           live == \E p \in Downloads : dlState[p] = "running"
       IN IF h # NoProcess
          THEN /\ signals' = KillSignals(h, "SIGTERM")                       \* line 1130
               /\ killed' = KillKilled(h)
               /\ cancels' = [cancels EXCEPT ![c] =
                      [@ EXCEPT !.called = TRUE, !.target = h, !.liveAtCall = live,
                                !.result = CancelSuccess, !.timer = "armed"]]
          ELSE /\ cancels' = [cancels EXCEPT ![c] =
                      [@ EXCEPT !.called = TRUE, !.liveAtCall = live,
                                !.result = NoActiveDownload]]
               /\ UNCHANGED <<signals, killed>>
    /\ UNCHANGED <<envVars, cacheVars, tvars, currentDownloadProcess, dlState, dlTimer,
                   dlKillTimer, dlPromise>>

\* Lines 1131-1138: the 3-second timer's callback.  It reads
\* this.currentDownloadProcess when it runs.
CancelTimerFires(c) ==
    /\ cancels[c].timer = "armed"
    /\ LET h == currentDownloadProcess
           force == h # NoProcess /\ ~killed[h]                              \* lines 1132-1135
       IN /\ cancels' = [cancels EXCEPT ![c] =
                 [@ EXCEPT !.timer = "fired",
                           !.aliveAtExpiry = (dlState[cancels[c].target] = "running"),
                           !.forced = IF force /\ Delivered(h) THEN h ELSE NoProcess]]
          /\ signals' = IF force THEN KillSignals(h, "SIGKILL") ELSE signals
          /\ killed' = IF force THEN KillKilled(h) ELSE killed
    /\ UNCHANGED <<envVars, cacheVars, tvars, currentDownloadProcess, dlState, dlTimer,
                   dlKillTimer, dlPromise>>

NextDownload ==
    /\ \/ \E p \in Downloads, spawnOk \in BOOLEAN : DownloadWhisperModel(p, spawnOk)
       \/ \E p \in Downloads, code \in CloseCodes, stdoutOk \in BOOLEAN :
              DownloadClose(p, code, stdoutOk)
       \/ \E p \in Downloads : DownloadTimeoutFires(p)
       \/ \E p \in Downloads : DownloadKillTimerFires(p)
       \/ \E c \in Cancels : CancelDownload(c)
       \/ \E c \in Cancels : CancelTimerFires(c)
    /\ UNCHANGED otherVars

\* The decoder plays no part in a download.
InitDownload == Init /\ envFFmpeg = "unpacked"

SpecDownload == InitDownload /\ [][NextDownload]_vars

\* Downloads that callers serialize: a download starts when no other download
\* process runs.  Each step is labelled with the 'close' event it handled.
NoDownloadRuns == \A q \in Downloads : dlState[q] # "running"

NextSerialDownload ==
  /\ UNCHANGED <<progressVars, opVars, installVars, parseVars, matVars, locVars, resolveVars, appVars>>
  /\
    \/ /\ NoDownloadRuns
       /\ \E p \in Downloads, spawnOk \in BOOLEAN : DownloadWhisperModel(p, spawnOk)
       /\ closeEvent' = NoClose
    \/ \E p \in Downloads, code \in CloseCodes, stdoutOk \in BOOLEAN :
           /\ DownloadClose(p, code, stdoutOk)
           /\ closeEvent' = [process |-> p, code |-> code]
    \/ /\ \/ \E p \in Downloads : DownloadTimeoutFires(p)
          \/ \E p \in Downloads : DownloadKillTimerFires(p)
          \/ \E c \in Cancels : CancelDownload(c)
          \/ \E c \in Cancels : CancelTimerFires(c)
       /\ closeEvent' = NoClose

SpecSerialDownload == InitDownload /\ [][NextSerialDownload]_vars

(***************************************************************************)
(* The stderr of a download process (lines 1050-1073).  Text is a sequence *)
(* of characters; a 'data' event delivers any non-empty prefix of what the *)
(* process has written and the pipe still holds.                           *)
(***************************************************************************)
\* "PROGRESS:", the prefix of line 1058.
ProgressPrefix == <<"P", "R", "O", "G", "R", "E", "S", "S", ":">>

\* The lines a download process writes.
StderrLines ==
    { ProgressPrefix \o <<"[", "1", "]">>,     \* PROGRESS:[1]
      ProgressPrefix \o <<"[", "2", "]">>,     \* PROGRESS:[2]
      ProgressPrefix \o <<"[", "1">>,          \* PROGRESS:[1   (not JSON)
      <<" ", "x">> }                           \* a log line

\* Lines 1057-1071, for one line of the chunk: a trimmed line with the prefix
\* is parsed from its tenth character on and passed to the callback; a parse
\* error is caught and ignored.
ForwardProgress(calls, trimmed) ==
    IF StartsWith(trimmed, ProgressPrefix) /\ JsonValid(Substring(trimmed, 9))
    THEN Append(calls, JsonParse(Substring(trimmed, 9)))
    ELSE calls

\* Lines 1055-1072: the loop over the lines of one chunk.
RECURSIVE ForwardLines(_, _)
ForwardLines(calls, lines) ==
    IF lines = <<>> THEN calls
    ELSE ForwardLines(ForwardProgress(calls, Trim(Head(lines))), Tail(lines))

\* The download process writes a line to its stderr.
StderrWrite(p, line) ==
    /\ dlState[p] = "running"
    /\ Len(stderrWritten) < MaxLines
    /\ stderrWritten' = Append(stderrWritten, line)
    /\ stderrPipe' = stderrPipe \o line \o <<"\n">>
    /\ UNCHANGED <<envVars, cacheVars, tvars, dvars, progressCalls>>

\* Lines 1050-1073: the 'data' handler of stderr, with a chunk of n characters.
StderrData(p, n) ==
    /\ dlState[p] = "running"
    /\ n \in 1..Len(stderrPipe)
    /\ LET output == SubSeq(stderrPipe, 1, n)
       IN progressCalls' = ForwardLines(progressCalls, SplitLines(output))
    /\ stderrPipe' = SubSeq(stderrPipe, n + 1, Len(stderrPipe))
    /\ UNCHANGED <<envVars, cacheVars, tvars, dvars, stderrWritten>>

\* The longest chunk a 'data' event delivers.
ChunkSizes == 1..(MaxLines * (Len(ProgressPrefix) + 4))

\* One download with its stderr.  The 'close' event comes after the streams
\* of the process have ended, so after the last 'data' event.
NextProgress ==
  /\ UNCHANGED <<opVars, installVars, parseVars, matVars, locVars, resolveVars, appVars>>
  /\
    \/ /\ \E spawnOk \in BOOLEAN : DownloadWhisperModel(1, spawnOk)
       /\ closeEvent' = NoClose
       /\ UNCHANGED progressVars
    \/ /\ \E line \in StderrLines : StderrWrite(1, line)
       /\ closeEvent' = NoClose
    \/ /\ \E n \in ChunkSizes : StderrData(1, n)
       /\ closeEvent' = NoClose
    \/ \E code \in CloseCodes, stdoutOk \in BOOLEAN :
           /\ stderrPipe = <<>>
           /\ DownloadClose(1, code, stdoutOk)
           /\ closeEvent' = [process |-> 1, code |-> code]
           /\ UNCHANGED progressVars
    \/ /\ DownloadTimeoutFires(1)
       /\ closeEvent' = NoClose
       /\ UNCHANGED progressVars

SpecProgress == InitDownload /\ [][NextProgress]_vars

(***************************************************************************)
(* checkModelStatus (lines 1149-1196), listWhisperModels (1198-1243) and   *)
(* deleteWhisperModel (1245-1298): the same code but for the arguments and *)
(* the words of the messages.                                              *)
(***************************************************************************)
FailedMessage(op) ==
    CASE op = "check" -> "Model status check failed"          \* line 1184
      [] op = "list"  -> "Model list failed"                  \* line 1232
      [] OTHER        -> "Model delete failed"                \* line 1287
ParseMessage(op) ==
    CASE op = "check" -> "Failed to parse model status"       \* line 1178
      [] op = "list"  -> "Failed to parse model list"         \* line 1227
      [] OTHER        -> "Failed to parse delete result"      \* line 1281
ErrorMessage(op) ==
    CASE op = "check" -> "Model status check error"           \* line 1190
      [] op = "list"  -> "Model list error"                   \* line 1237
      [] OTHER        -> "Model delete error"                 \* line 1292

\* The text a process writes to stderr, when it writes any.
StderrText == "warning"

\* A 'close' handler that leaves the captured stderr out of the failure.
ModelOpCloseResult_NoStderr(op, code, stdoutOk, stderr) ==
    IF code = 0
    THEN IF stdoutOk THEN OpResolved("result") ELSE OpRejected(ParseMessage(op), "")
    ELSE OpRejected(FailedMessage(op), "")

\* Lines 1171-1186, 1220-1233, 1273-1288: what the 'close' handler settles with.
ModelOpCloseResult(op, code, stdoutOk, stderr) ==
    IF code = 0
    THEN IF stdoutOk THEN OpResolved("result") ELSE OpRejected(ParseMessage(op), "")
    ELSE OpRejected(FailedMessage(op), stderr)

\* The call: resolve the interpreter (a failure is rethrown by the catch) and
\* spawn the process.  A process that could not be spawned emits 'error' on
\* the next tick: the 'error' handler rejects with the spawn error's message.
ModelOperation(op, spawnOk) ==
    /\ opState[op] = "none"
    /\ LET py == FindPython
       IN IF ~py.ok
          THEN /\ opState' = [opState EXCEPT ![op] = "closed"]
               /\ opPromise' = [opPromise EXCEPT ![op] = OpRejected(PythonNotFound, "")]
               /\ UNCHANGED pythonCmd
          ELSE /\ pythonCmd' = py.cmd
               /\ opState' = [opState EXCEPT ![op] = IF spawnOk THEN "running" ELSE "errored"]
               /\ opPromise' = [opPromise EXCEPT ![op] =
                      IF spawnOk THEN @ ELSE Settle(@, OpRejected(ErrorMessage(op), ""))]
    /\ UNCHANGED <<envVars, cachedFFmpegPath, cachedFFmpegAvailability, tvars, dvars,
                   closeEvent, progressVars, installVars, parseVars, matVars, locVars, resolveVars, appVars, opStderr, opExit>>

CheckModelStatus(spawnOk) == ModelOperation("check", spawnOk)
ListWhisperModels(spawnOk) == ModelOperation("list", spawnOk)
DeleteWhisperModel(spawnOk) == ModelOperation("delete", spawnOk)

\* Lines 1166-1168, 1215-1217, 1268-1270: stderr += data.
ModelOpStderrData(op) ==
    /\ opState[op] = "running"
    /\ opStderr[op] = ""
    /\ opStderr' = [opStderr EXCEPT ![op] = StderrText]
    /\ UNCHANGED <<envVars, cacheVars, tvars, dvars, closeEvent, progressVars, installVars,
                   parseVars, matVars, locVars, resolveVars, appVars, opState, opExit, opPromise>>

\* Lines 1170-1187, 1219-1234, 1272-1289: the 'close' handler.
ModelOpClose(op, code, stdoutOk) ==
    /\ opState[op] \in {"running", "errored"}
    /\ code # 0 => stdoutOk                                  \* stdout is read at code 0 only
    /\ opState[op] = "errored" => code = 1
    /\ opState' = [opState EXCEPT ![op] = "closed"]
    /\ opExit' = [opExit EXCEPT ![op] = [closed |-> TRUE, code |-> code, stdoutOk |-> stdoutOk]]
    /\ opPromise' = [opPromise EXCEPT ![op] =
           Settle(@, ModelOpCloseResult(op, code, stdoutOk, opStderr[op]))]
    /\ UNCHANGED <<envVars, cacheVars, tvars, dvars, closeEvent, progressVars, installVars,
                   parseVars, matVars, locVars, resolveVars, appVars, opStderr>>

NextModelOps ==
    \/ \E spawnOk \in BOOLEAN : CheckModelStatus(spawnOk)
    \/ \E spawnOk \in BOOLEAN : ListWhisperModels(spawnOk)
    \/ \E spawnOk \in BOOLEAN : DeleteWhisperModel(spawnOk)
    \/ \E op \in ModelOps : ModelOpStderrData(op)
    \/ \E op \in ModelOps, code \in ExitCodes, stdoutOk \in BOOLEAN :
           ModelOpClose(op, code, stdoutOk)

SpecModelOps == InitDownload /\ [][NextModelOps]_vars

(***************************************************************************)
(* installWhisper (lines 949-1024) and upgradePip (lines 937-945).  Every  *)
(* pip command is a runCommand the call awaits: it resolves, or it rejects *)
(* with an error whose message the installer classifies.                   *)
(***************************************************************************)
Platforms == {"darwin", "linux"}

\* How a pip command ends.
CommandResult(ok, message) == [ok |-> ok, message |-> message]
CommandResults ==
    {CommandResult(TRUE, NoMessage)}
        \cup {CommandResult(FALSE, Message(pm, tm)) : pm \in BOOLEAN, tm \in BOOLEAN}
        \cup {CommandResult(FALSE, [NoMessage EXCEPT !.visualCpp = TRUE]),
              CommandResult(FALSE, [NoMessage EXCEPT !.noMatch = TRUE, !.ansi = TRUE]),
              CommandResult(FALSE, [NoMessage EXCEPT !.visualCpp = TRUE, !.noMatch = TRUE]),
              CommandResult(FALSE, [NoMessage EXCEPT !.ansi = TRUE])}

\* sanitizeErrorMessage (lines 24-29): the text without its colour sequences.
SanitizeErrorMessage(message) == [message EXCEPT !.ansi = FALSE]

\* formatWhisperInstallError (lines 51-64), for the non-empty messages of
\* CommandResults.
FormatWhisperInstallError(message) ==
    LET formatted == SanitizeErrorMessage(message)
    IN IF formatted.visualCpp THEN BuildToolsRequired
       ELSE IF formatted.noMatch THEN PythonIncompatible
       ELSE Original(formatted)

\* A classification that never asks for the user-scoped install.
ShouldRetryWithUserInstall_Never(message) == FALSE

\* shouldRetryWithUserInstall (lines 31-42).
ShouldRetryWithUserInstall(message) == message.permission

\* A classification that sees no resolver signature in any message.
IsTomlResolverError_Never(message) == FALSE

\* isTomlResolverError (lines 44-49).
IsTomlResolverError(message) == message.toml

\* The pip arguments that tell the strategies apart: --user and
\* --use-deprecated=legacy-resolver (buildInstallArgs, lines 978-988).
Strategy(user, legacy) ==
    CASE ~user /\ ~legacy -> "standard"
      [] user /\ ~legacy  -> "user"
      [] ~user /\ legacy  -> "legacyResolver"
      [] OTHER            -> "user+legacy"

\* The strategy of the command the call awaits at each place.
StrategyAt(where) ==
    CASE where = "upgradePip"        -> Strategy(platform = "darwin", FALSE)   \* lines 939-943
      [] where = "upgradeUser"       -> Strategy(TRUE, FALSE)                  \* line 961
      [] where = "upgradeLegacy"     -> Strategy(FALSE, TRUE)                  \* line 968
      [] where = "install"           -> Strategy(platform = "darwin", FALSE)   \* lines 991-994
      [] where = "installUser"       -> Strategy(TRUE, FALSE)                  \* line 1000
      [] where = "installLegacy"     -> Strategy(FALSE, TRUE)                  \* line 1012
      [] OTHER                       -> Strategy(TRUE, TRUE)                   \* lines 1004, 1016

ChainOf(where) ==
    IF where \in {"upgradePip", "upgradeUser", "upgradeLegacy"} THEN "pip" ELSE "package"

Attempt(where, result) ==
    [chain |-> ChainOf(where), strategy |-> StrategyAt(where), ok |-> result.ok,
     message |-> result.message]

InstallFailed == "Whisper installation failed"
UpgradeFailed == "Failed to upgrade pip"

\* Lines 950-954: resolve the interpreter (an error leaves the call) and start
\* the first pip upgrade.
InstallWhisper(plat) ==
    /\ installPc = "idle"
    /\ LET py == FindPython
       IN IF ~py.ok
          THEN /\ installPc' = "done"
               /\ installOutcome' = Threw(PythonNotFound, "")
               /\ UNCHANGED <<pythonCmd, platform>>
          ELSE /\ pythonCmd' = py.cmd
               /\ platform' = plat
               /\ installPc' = "upgradePip"
               /\ UNCHANGED installOutcome
    /\ UNCHANGED <<envVars, cachedFFmpegPath, cachedFFmpegAvailability, tvars, dvars,
                   closeEvent, progressVars, opVars, parseVars, matVars, locVars, resolveVars, appVars, attempts, upgradeError,
                   installError>>

\* An upgrade chain that starts over when its last command fails.
UpgradeCommandDone_StartsOver(r) ==
    /\ installPc \in {"upgradePip", "upgradeUser", "upgradeLegacy"}
    /\ attempts' = Append(attempts, Attempt(installPc, r))
    /\ installPc' = IF r.ok THEN "install"
                    ELSE IF installPc = "upgradePip" THEN "upgradeUser"
                    ELSE IF installPc = "upgradeUser" THEN "upgradeLegacy"
                    ELSE "upgradePip"
    /\ UNCHANGED <<envVars, cacheVars, tvars, dvars, closeEvent, progressVars, opVars,
                   parseVars, matVars, locVars, resolveVars, appVars, platform, upgradeError,
                   installOutcome, installError>>

\* Lines 953-976: a command of the pip upgrade chain has ended.  The chain
\* goes on to the package install at line 993 when a command succeeds, and
\* when the first two fail without a resolver signature.
UpgradeCommandDone(r) ==
    /\ installPc \in {"upgradePip", "upgradeUser", "upgradeLegacy"}
    /\ attempts' = Append(attempts, Attempt(installPc, r))
    /\ upgradeError' = IF installPc = "upgradePip" /\ ~r.ok THEN r.message ELSE upgradeError
    /\ IF r.ok
       THEN installPc' = "install" /\ UNCHANGED installOutcome
       ELSE CASE installPc = "upgradePip" ->
                     installPc' = "upgradeUser" /\ UNCHANGED installOutcome
              [] installPc = "upgradeUser" ->
                     /\ installPc' = IF IsTomlResolverError(upgradeError)
                                        \/ IsTomlResolverError(r.message)        \* line 965
                                     THEN "upgradeLegacy" ELSE "install"
                     /\ UNCHANGED installOutcome
              [] OTHER ->                                                       \* line 970
                     installPc' = "done" /\ installOutcome' = Threw(UpgradeFailed, "")
    /\ UNCHANGED <<envVars, cacheVars, tvars, dvars, closeEvent, progressVars, opVars,
                   parseVars, matVars, locVars, resolveVars, appVars, platform, installError>>

\* Lines 993-1023: a command of the package chain has ended.
InstallCommandDone(r) ==
    /\ installPc \in {"install", "installUser", "installLegacy", "installUserLegacy"}
    /\ attempts' = Append(attempts, Attempt(installPc, r))
    /\ LET message == SanitizeErrorMessage(r.message)          \* lines 996, 1002, 1014
           next == CASE r.ok -> "done"
                     [] installPc = "install" ->
                            IF ShouldRetryWithUserInstall(message)              \* line 998
                            THEN "installUser"
                            ELSE IF IsTomlResolverError(message)                \* line 1010
                            THEN "installLegacy" ELSE "done"
                     [] installPc = "installUser" ->
                            IF IsTomlResolverError(message)                     \* line 1003
                            THEN "installUserLegacy" ELSE "done"
                     [] installPc = "installLegacy" ->
                            IF ShouldRetryWithUserInstall(message)              \* line 1015
                            THEN "installUserLegacy" ELSE "done"
                     [] OTHER -> "done"
       IN /\ installPc' = next
          /\ IF r.ok
             THEN installOutcome' = Returned("installed") /\ UNCHANGED installError
             ELSE IF next # "done"
             THEN UNCHANGED <<installOutcome, installError>>
             ELSE /\ installOutcome' = Threw(InstallFailed, "")
                  /\ installError' =
                         IF installPc = "installUserLegacy"
                         THEN Original(r.message)      \* lines 1004, 1016: the rejection, as it is
                         ELSE FormatWhisperInstallError(message)   \* lines 1006, 1018, 1022
    /\ UNCHANGED <<envVars, cacheVars, tvars, dvars, closeEvent, progressVars, opVars,
                   parseVars, matVars, locVars, resolveVars, appVars, platform, upgradeError>>

NextInstall ==
    \/ \E plat \in Platforms : InstallWhisper(plat)
    \/ \E r \in CommandResults : UpgradeCommandDone(r)
    \/ \E r \in CommandResults : InstallCommandDone(r)

SpecInstall == InitDownload /\ [][NextInstall]_vars

\* The call is made, and every runCommand it awaits ends: with the command's
\* exit or with the timeout of its options (TIMEOUTS.PIP_UPGRADE, line 944;
\* TIMEOUTS.DOWNLOAD, line 994).
SpecInstallFair == SpecInstall /\ WF_vars(NextInstall)

(***************************************************************************)
(* parseWhisperResult on its own: one call with a stdout of a few lines.   *)
(***************************************************************************)
\* The lines a worker prints: empty and blank lines, log lines with and without
\* braces, and JSON objects, bare and indented.
StdoutLines ==
    { <<>>, <<" ">>, <<"x">>, <<"{", "x">>, <<"{", "x", "}">>, <<"{", "}">>,
      <<" ", "{", "\"success\":true,\"text\":\" hi \"", "}", " ">> }
        \cup { <<"{", m, "}">> : m \in DOMAIN Members }

\* Array.prototype.join("\n"): the stdout whose lines these are.
RECURSIVE JoinLines(_)
JoinLines(lines) ==
    IF lines = <<>> THEN <<>>
    ELSE IF Len(lines) = 1 THEN Head(lines)
    ELSE Head(lines) \o <<"\n">> \o JoinLines(Tail(lines))

\* The stdouts of up to n lines.
RECURSIVE StdoutsOf(_)
StdoutsOf(n) ==
    IF n = 0 THEN {<<>>}
    ELSE LET shorter == StdoutsOf(n - 1)
         IN shorter \cup {Append(ls, l) : ls \in shorter, l \in StdoutLines}

ParseWhisperResultCall(lines) ==
    /\ parseInput' = lines
    /\ parseOutput' = ParseWhisperResult(JoinLines(lines))
    /\ UNCHANGED <<envVars, cacheVars, tvars, dvars, closeEvent, progressVars, opVars,
                   installVars, matVars, locVars, resolveVars, appVars>>

\* One call.
NextParse ==
    /\ parseOutput = NotParsed
    /\ \E lines \in StdoutsOf(MaxStdoutLines) : ParseWhisperResultCall(lines)

SpecParse == InitDownload /\ [][NextParse]_vars

(***************************************************************************)
(* The transcription pipeline: claims C1 to C6.                            *)
(***************************************************************************)

\* C1: every temporary audio file an invocation of transcribeLocalWhisper
\* created is gone when the invocation has returned or thrown, on every exit
\* path, a failure of the materialize step after the write included.
C1_TempFileRemovedOnExit ==
    \A i \in Calls : pc[i] = "done" => i \notin files

\* C2: timeout, 'close' and 'error' resolve a worker invocation exactly once:
\* whichever runs first sets the isResolved guard, and no later event calls
\* resolve or reject.
C2_GuardSetByFirstEvent ==
    \A i \in Calls :
        /\ firstEvent[i] # "none" => isResolved[i]
        /\ settleCalls[i] <= 1

\* C3: a worker invocation that is not settled yet can still be settled by its
\* timer or by an event of its process: none is left pending with neither,
\* whatever decoder path getFFmpegPath returned.
C3_PendingInvocationCanSettle ==
    \A i \in Calls :
        (pc[i] = "await" /\ promise[i].state = "pending")
            => (timer[i] = "armed" \/ worker[i] \in {"running", "errored"})

\* C4: when the timer fires before the process closes or errors, the process
\* is sent SIGTERM and the invocation's outcome is the timeout error; when the
\* process closes or errors first, the timer is cancelled and sends no signal.
C4_TimeoutRacesExit ==
    \A i \in Calls :
        /\ firstEvent[i] = "timeout"
               => (termSent[i] /\ promise[i] = Rejected(TimeoutError))
        /\ firstEvent[i] \in {"close", "error"}
               => (timer[i] = "cleared" /\ ~termSent[i]
                   /\ promise[i].state # "pending" /\ promise[i] # Rejected(TimeoutError))

\* C4 witness: a timer fired first, and the process closed after it.
C4_Witness ==
    \E i \in Calls : firstEvent[i] = "timeout" /\ termSent[i] /\ worker[i] = "closed"

\* C5: when the availability check reports the decoder unavailable, the
\* invocation throws the FFmpeg-not-available error with the check's diagnostic
\* ("Unknown error" when the result carries none); it writes no temporary file
\* and spawns no worker.
C5_UnavailableFailsFast ==
    \A i \in Calls :
        (ffmpegCheck[i] # NullCheck /\ ~ffmpegCheck[i].available /\ pc[i] # "gate")
            => /\ pc[i] = "done"
               /\ outcome[i].kind = "throw"
               /\ outcome[i].err = "FFmpeg not available"
               /\ outcome[i].diag \in {ffmpegCheck[i].error, "Unknown error"}
               /\ outcome[i].diag = "Unknown error" => ffmpegCheck[i].error \in {"", "Unknown error"}
               /\ effects[i] \cap {"write", "worker"} = {}
               /\ i \notin files

\* C5 witness: an invocation has failed on a result that came from the worker
\* script's check.
C5_Witness ==
    \E i \in Calls :
        /\ pc[i] = "done"
        /\ outcome[i] = Threw("FFmpeg not available", "ffmpeg not found")

Live(p) == dlState[p] = "running"
Received(p, sig) == \E k \in 1..Len(signals[p]) : signals[p][k] = sig

\* C7: after cancelDownload() on an active download the tracked process has
\* received SIGTERM, and when the 3-second timer fires it receives SIGKILL if
\* it is still running, and no forced signal is sent if it has gone.
C7_CancelEscalates ==
    \A c \in Cancels :
        (cancels[c].called /\ cancels[c].target # NoProcess)
            => /\ Received(cancels[c].target, "SIGTERM")
               /\ signals[cancels[c].target][1] = "SIGTERM"
               /\ (cancels[c].timer = "fired" /\ cancels[c].aliveAtExpiry)
                      => cancels[c].forced = cancels[c].target
               /\ (cancels[c].timer = "fired" /\ ~cancels[c].aliveAtExpiry)
                      => cancels[c].forced = NoProcess

\* C8, one step: a cancelDownload() call never throws; with no active download
\* it returns the failure outcome, arms no timer, signals no process and
\* changes no state; with an active download it returns the success outcome.
C8_CancelStep ==
    \A c \in Cancels :
        (~cancels[c].called /\ cancels'[c].called)
            => /\ cancels'[c].result.kind = "return"
               /\ IF currentDownloadProcess = NoProcess
                  THEN /\ cancels'[c].result = CancelNoActive
                       /\ cancels'[c].timer = "none"
                       /\ UNCHANGED <<currentDownloadProcess, dlVars, cacheVars>>
                  ELSE /\ cancels'[c].result = CancelSuccess
                       /\ cancels'[c].target = currentDownloadProcess

\* C8, over every step of every behaviour: each cancelDownload() call is such
\* a step.
C8_CancelNeverThrows == [][C8_CancelStep]_vars

\* C8 witness: a cancelDownload() call found no active download.
C8_Witness ==
    \E c \in Cancels : cancels[c].called /\ cancels[c].result = CancelNoActive

\* C9: at most one download process of the instance is live at any time.
C9_AtMostOneLiveDownload ==
    Cardinality({p \in Downloads : Live(p)}) <= 1

\* C10: the tracked handle stands for the live download: it is set exactly
\* while a download process is live, so cancelDownload() reports 'no active
\* download' if and only if no download process was live when it was called.
C10_HandleTracksLiveDownload ==
    /\ currentDownloadProcess # NoProcess => Live(currentDownloadProcess)
    /\ (\E p \in Downloads : Live(p)) => currentDownloadProcess # NoProcess
    /\ \A c \in Cancels :
           cancels[c].called => (cancels[c].result = CancelNoActive <=> ~cancels[c].liveAtCall)

(***************************************************************************)
(* The download's outcomes and its timer: claims C11 and C12.              *)
(***************************************************************************)
\* The codes of a process that a graceful or a forced kill ended.
Interrupting(code) == code \in {143, 137, NullCode}

\* C11 as claimed: a download whose process closes with code 143, 137 or null
\* is rejected as interrupted by the user, and one that closes with any other
\* non-zero code as a plain download failure; so a download that
\* cancelDownload() terminated is rejected as interrupted by the user.
C11_KillCodeMeansInterrupted ==
    closeEvent # NoClose =>
        LET p == closeEvent.process
            code == closeEvent.code
        IN /\ Interrupting(code) => dlPromise[p] = Rejected(DownloadInterrupted)
           /\ (code # 0 /\ ~Interrupting(code)) => dlPromise[p] = Rejected(DownloadFailed)

\* C11 as amended: the 'close' event decides the outcome of a download that
\* nothing has settled before it.  When the 20-minute timer fired first the
\* outcome stays the timeout error, and when the process could not be spawned
\* it stays the process error, whatever code the process closes with;
\* otherwise codes 143, 137 and null give the interrupted-by-user outcome and
\* every other non-zero code the plain failure, and a download that
\* cancelDownload() terminated before its timer fired is rejected as
\* interrupted by the user.
C11_CloseDecidesPendingDownload ==
    closeEvent # NoClose =>
        LET p == closeEvent.process
            code == closeEvent.code
        IN IF dlPromise[p] = Rejected(DownloadProcessError)
           THEN TRUE
           ELSE IF dlTimer[p] = "fired"
           THEN dlPromise[p] = Rejected(DownloadTimeout)
           ELSE /\ Interrupting(code) => dlPromise[p] = Rejected(DownloadInterrupted)
                /\ (code # 0 /\ ~Interrupting(code)) => dlPromise[p] = Rejected(DownloadFailed)
                /\ code = 0 => dlPromise[p] \in {Resolved("result"), Rejected(DownloadParseError)}
                /\ (\E c \in Cancels : cancels[c].target = p /\ Interrupting(code))
                       => dlPromise[p] = Rejected(DownloadInterrupted)

\* C11 witness: a download that cancelDownload() signalled closed with a null
\* code before its timer fired, and was rejected as interrupted by the user.
C11_Witness ==
    /\ closeEvent # NoClose
    /\ closeEvent.code = NullCode
    /\ \E c \in Cancels : cancels[c].target = closeEvent.process
    /\ Received(closeEvent.process, "SIGTERM")
    /\ dlTimer[closeEvent.process] = "cleared"
    /\ dlPromise[closeEvent.process] = Rejected(DownloadInterrupted)

\* C12: when the 20-minute timer fires while the download process runs, the
\* process is sent SIGTERM and the download is rejected with the timeout error;
\* when the process still runs as the 5-second timer fires, it is sent SIGKILL;
\* a process that closes before the 20-minute timer fires cancels it, and the
\* timer sends no signal.
C12_TimeoutEscalates ==
    \A p \in Downloads :
        /\ (dlTimer[p] = "fired" /\ Live(p))
               => (Received(p, "SIGTERM") /\ dlPromise[p] = Rejected(DownloadTimeout))
        /\ (dlKillTimer[p] = "fired" /\ Live(p)) => Received(p, "SIGKILL")
        /\ dlTimer[p] = "cleared" => dlKillTimer[p] = "none"

(***************************************************************************)
(* Progress lines: claim C13.                                              *)
(***************************************************************************)
\* The progress data of the written lines that begin with the prefix and
\* carry valid JSON after it, in the order the process wrote them.
RECURSIVE ProgressOf(_)
ProgressOf(lines) ==
    IF lines = <<>> THEN <<>>
    ELSE LET line == Head(lines)
         IN (IF StartsWith(line, ProgressPrefix) /\ JsonValid(Substring(line, 9))
             THEN <<JsonParse(Substring(line, 9))>> ELSE <<>>)
            \o ProgressOf(Tail(lines))

\* C13: once the handler has received all that the process wrote, the callback
\* has been invoked for every line that begins with PROGRESS: and carries valid
\* JSON, in the order of the lines, and for no malformed line; and the lines do
\* not change what the 'close' event settles the download with.
C13_EveryProgressLineForwarded ==
    /\ stderrPipe = <<>> => progressCalls = ProgressOf(stderrWritten)
    /\ closeEvent # NoClose => C11_CloseDecidesPendingDownload

(***************************************************************************)
(* The model operations: claim C14.                                        *)
(***************************************************************************)
\* The call of the operation has ended: in a 'close' event, or without a process.
OpEnded(op) == opState[op] = "closed"
\* The process was spawned and closed with exit code 0 and parseable stdout.
OpSucceeded(op) == opExit[op].closed /\ opExit[op].code = 0 /\ opExit[op].stdoutOk

\* C14 as claimed: each operation resolves with the parsed payload if and only
\* if the process exits with code 0 and parseable stdout, and in every other
\* outcome rejects with a failure that carries the captured stderr.
C14_FailureCarriesStderr ==
    \A op \in ModelOps :
        OpEnded(op) =>
            /\ opPromise[op] = OpResolved("result") <=> OpSucceeded(op)
            /\ ~OpSucceeded(op)
                   => (opPromise[op].state = "rejected" /\ opPromise[op].stderr = opStderr[op])

\* C14 as amended: each operation resolves with the parsed payload if and only
\* if the process exits with code 0 and parseable stdout; a non-zero exit of a
\* spawned process rejects with the failure that carries the captured stderr,
\* exit 0 with unparseable stdout with the parse failure, which carries the
\* parse error and not the stderr, a spawn error with the process error, and
\* an interpreter that is not found with the not-found error.
C14_FailureClassified ==
    \A op \in ModelOps :
        OpEnded(op) =>
            /\ opPromise[op] = OpResolved("result") <=> OpSucceeded(op)
            /\ ~OpSucceeded(op) => opPromise[op].state = "rejected"
            /\ (opExit[op].closed /\ opExit[op].code # 0)
                   => opPromise[op] \in { OpRejected(FailedMessage(op), opStderr[op]),
                                          OpRejected(ErrorMessage(op), "") }
            /\ (opExit[op].closed /\ opExit[op].code = 0 /\ ~opExit[op].stdoutOk)
                   => opPromise[op] = OpRejected(ParseMessage(op), "")
            /\ ~opExit[op].closed => opPromise[op] = OpRejected(PythonNotFound, "")

\* C14 witness: an operation whose process wrote to stderr and exited with a
\* non-zero code was rejected with the failure that carries that stderr.
C14_Witness ==
    \E op \in ModelOps :
        /\ OpEnded(op) /\ opExit[op].code = 1 /\ opStderr[op] = StderrText
        /\ opPromise[op] = OpRejected(FailedMessage(op), StderrText)

(***************************************************************************)
(* The installer: claims C15 and C16.                                      *)
(***************************************************************************)
\* The commands of one chain that have ended, in order.
ChainAttempts(chain) == SelectSeq(attempts, LAMBDA a : a.chain = chain)

\* C15: when the standard package install fails with a permission-denied
\* signature the call goes on with the user-scoped install, and when that one
\* succeeds the call returns success after exactly these two package installs.
C15_UserInstallAfterPermissionDenied ==
    LET pk == ChainAttempts("package")
        deniedFirst == /\ Len(pk) >= 1
                       /\ pk[1].strategy = "standard" /\ ~pk[1].ok /\ pk[1].message.permission
    IN /\ (deniedFirst /\ Len(pk) = 1) => installPc = "installUser"
       /\ (deniedFirst /\ Len(pk) >= 2) => pk[2].strategy = "user"
       /\ (deniedFirst /\ Len(pk) >= 2 /\ pk[2].ok)
              => /\ Len(pk) = 2
                 /\ installPc = "done"
                 /\ installOutcome = Returned("installed")

\* C15 witness: the standard install was denied, the user-scoped one succeeded.
C15_Witness ==
    LET pk == ChainAttempts("package")
    IN /\ Len(pk) = 2
       /\ pk[1].strategy = "standard" /\ ~pk[1].ok /\ pk[1].message.permission
       /\ pk[2].strategy = "user" /\ pk[2].ok
       /\ installOutcome = Returned("installed")

\* C16: in the pip upgrade chain and in the package chain of one call, a
\* command that follows a failed one uses a strategy that no failed command
\* of the chain used, on every platform.
C16_NoStrategyRetried ==
    \A chain \in {"pip", "package"} :
        LET ca == ChainAttempts(chain)
        IN \A j \in 1..Len(ca) : \A k \in 1..Len(ca) :
               (j < k /\ ~ca[j].ok) => ca[k].strategy # ca[j].strategy

(***************************************************************************)
(* createTempAudioFile (lines 174-216), step by step: the conversion of    *)
(* lines 182-194, the write of line 198, the stat of line 201.             *)
(***************************************************************************)
AcceptedKinds == {"ArrayBuffer", "Uint8Array", "string", "bufferObject"}

\* The arguments of a call: every representation, with up to MaxBytes audio
\* bytes; a view may cover only part of the buffer under it.
MaterializeInputs ==
    {AudioInput("ArrayBuffer", n, n) : n \in 0..MaxBytes}
    \cup {AudioInput("string", n, n) : n \in 0..MaxBytes}
    \cup UNION {{AudioInput(k, n, m) : k \in {"Uint8Array", "bufferObject"},
                                       m \in n..MaxBytes} : n \in 0..MaxBytes}
    \cup {AudioInput("other", 0, 0)}

UnsupportedInput == Threw("Unsupported audio data type", "")

\* Lines 174-198: the buffer is made, or the call throws at line 193; the
\* write of line 198 is awaited.
CreateTempAudioFileCall(a) ==
    /\ matPc = "idle"
    /\ matInput' = a
    /\ IF BufferFromLength(a) = NoFile
       THEN /\ matOutcome' = UnsupportedInput
            /\ matPc' = "done"
            /\ UNCHANGED matBuffer
       ELSE /\ matBuffer' = BufferFromLength(a)
            /\ matPc' = "write"
            /\ UNCHANGED matOutcome
    /\ UNCHANGED <<envVars, cacheVars, tvars, dvars, closeEvent, progressVars, opVars,
                   installVars, parseVars, locVars, resolveVars, appVars, matFile>>

\* Line 198: the file holds the buffer; the stat of line 201 is awaited.
WriteFileDone ==
    /\ matPc = "write"
    /\ matFile' = matBuffer
    /\ matPc' = "stat"
    /\ UNCHANGED <<envVars, cacheVars, tvars, dvars, closeEvent, progressVars, opVars,
                   installVars, parseVars, locVars, resolveVars, appVars, matInput, matBuffer, matOutcome>>

\* Lines 201-215: the empty file is an error, any other is returned.
StatDone ==
    /\ matPc = "stat"
    /\ matOutcome' = IF StatSizeIsEmpty(matFile) THEN Threw("Audio file is empty", "")
                     ELSE Returned("tempAudioPath")
    /\ matPc' = "done"
    /\ UNCHANGED <<envVars, cacheVars, tvars, dvars, closeEvent, progressVars, opVars,
                   installVars, parseVars, locVars, resolveVars, appVars, matInput, matBuffer, matFile>>

NextMaterialize ==
    \/ \E a \in MaterializeInputs : CreateTempAudioFileCall(a)
    \/ WriteFileDone
    \/ StatDone

SpecMaterialize == InitDownload /\ [][NextMaterialize]_vars

\* C19: the file of an accepted input has exactly the byte length of the
\* input's audio bytes; any other input is rejected as unsupported and no file
\* is written.
C19_FileHasInputByteLength ==
    matPc = "done" =>
        IF matInput.kind \in AcceptedKinds
        THEN matFile = matInput.byteLength
        ELSE matOutcome = UnsupportedInput /\ matFile = NoFile

(***************************************************************************)
(* getFFmpegPath (lines 218-296): the calls, one after the other.          *)
(***************************************************************************)
LocateFrame ==
    UNCHANGED <<envVars, pythonCmd, cachedFFmpegAvailability, tvars, dvars, closeEvent,
                progressVars, opVars, installVars, parseVars, matVars, resolveVars, appVars>>

\* A cache that is never read.
CachedPath_Never(path) == FALSE

\* Line 219: if (this.cachedFFmpegPath).
CachedPath(path) == path # Null

\* The call returns or throws.
LocateEnds(l, result) ==
    /\ locResults' = Append(locResults, result)
    /\ locReturn' = [locReturn EXCEPT ![l] = result]
    /\ locPc' = [locPc EXCEPT ![l] = "done"]

\* Lines 219-221: the cached path is returned.
GetFFmpegPathCached(l) ==
    /\ locPc[l] = "idle"
    /\ \A j \in Locates : j < l => locPc[j] # "idle"     \* calls are numbered in call order
    /\ CachedPath(cachedFFmpegPath)
    /\ locBegan' = [locBegan EXCEPT ![l] = Len(locResults)]
    /\ LocateEnds(l, LocateResult("return", cachedFFmpegPath, "none", "none"))
    /\ UNCHANGED <<cachedFFmpegPath, locEnv, locCaught, locFs>>
    /\ LocateFrame

\* Lines 223-283 and 294-295: without a cached path, the bundled binary is
\* looked for; it is cached and returned, or the error is caught at line 279
\* and the system binary is probed (the await of line 285).
GetFFmpegPathCall(l, env) ==
    /\ locPc[l] = "idle"
    /\ \A j \in Locates : j < l => locPc[j] # "idle"
    /\ locEnv' = env
    /\ locBegan' = [locBegan EXCEPT ![l] = Len(locResults)]
    /\ locFs' = [locFs EXCEPT ![l] = TRUE]
    /\ LET bundled == BundledFFmpeg(env)
       IN IF bundled.thrown = "none"
          THEN /\ cachedFFmpegPath' = Render(bundled.path)
               /\ LocateEnds(l, LocateResult("return", Render(bundled.path), "none", "none"))
               /\ UNCHANGED locCaught
          ELSE /\ locCaught' = [locCaught EXCEPT ![l] = bundled.thrown]
               /\ locPc' = [locPc EXCEPT ![l] = "probing"]
               /\ UNCHANGED <<cachedFFmpegPath, locResults, locReturn>>
    /\ LocateFrame

\* Lines 285-295: the probe resolved or rejected.
SystemProbeDone(l, probe) ==
    /\ locPc[l] = "probing"
    /\ LET result == SystemProbeResult(BinaryName(locEnv.win32), locCaught[l], probe)
       IN /\ LocateEnds(l, result)
          /\ cachedFFmpegPath' =
                 IF result.kind = "return" THEN result.path ELSE cachedFFmpegPath
    /\ UNCHANGED <<locEnv, locCaught, locBegan, locFs>>
    /\ LocateFrame

\* The calls may overlap at the await of line 285.  The binary's location is
\* the same for all calls of a running instance: the first call that reads
\* the environment fixes it.
NextLocate ==
    \/ \E l \in Locates : GetFFmpegPathCached(l)
    \/ /\ ~CachedPath(cachedFFmpegPath)
       /\ \E l \in Locates :
              \E env \in IF locEnv = NoEnv THEN LocateEnvs ELSE {locEnv} :
                  GetFFmpegPathCall(l, env)
    \/ \E l \in Locates, probe \in ProbeOutcomes : SystemProbeDone(l, probe)

SpecLocate == InitDownload /\ [][NextLocate]_vars

\* C20: every getFFmpegPath call returns, and returns a path string, whatever
\* it found of the bundled binary and however the system probe ended.
C20_AlwaysReturnsPath ==
    \A k \in 1..Len(locResults) :
        locResults[k].kind = "return" /\ locResults[k].path # Null

\* C20 witness: the bundled binary was there and not executable, the system
\* probe failed, and the call returned the system name; the next call
\* returned it from the cache.
C20_Witness ==
    /\ Len(locResults) = 2
    /\ locResults[1] = LocateResult("return", "ffmpeg", "not executable", "rejected")
    /\ locResults[2].path = "ffmpeg"
    /\ ExistsSync(locEnv, WithAlternatives(locEnv, PrimaryPath(locEnv).path))

(***************************************************************************)
(* findPythonExecutable (lines 546-621) and the operations that call it:   *)
(* any operation that needs the interpreter (plain), a forced re-check     *)
(* (lines 731-736, 792-797) and installPython (lines 672-685).  The        *)
(* operations may overlap: each await (lines 608, 677) ends a step.        *)
(***************************************************************************)
ResolveFrame ==
    UNCHANGED <<envVars, cachedFFmpegPath, cachedFFmpegAvailability, tvars, dvars, closeEvent,
                progressVars, opVars, installVars, parseVars, matVars, locVars, appVars>>

\* Lines 602-620, from position from of candidateSet on: the next candidate
\* that is not skipped is spawned with --version (line 608), or the loop ends
\* and the call throws (line 618).
ProbeFrom(r, from) ==
    LET k == NextCandidate(pyEnv, from)
    IN IF k = 0
       THEN /\ resResult' = [resResult EXCEPT ![r] = Threw(PythonNotFound, "")]
            /\ resPc' = [resPc EXCEPT ![r] = "done"]
            /\ UNCHANGED <<resIndex, resSpawned>>
       ELSE /\ resPc' = [resPc EXCEPT ![r] = "probing"]
            /\ resIndex' = [resIndex EXCEPT ![r] = k]
            /\ resSpawned' = [resSpawned EXCEPT ![r] = Append(@, CandidateSet(pyEnv)[k])]
            /\ UNCHANGED resResult

\* A cache that is never read.
Cached_Never(cmd) == FALSE

\* Line 547: if (this.pythonCmd).
Cached(cmd) == cmd # Null

\* Lines 546-608, with cache the value of this.pythonCmd at line 547.
BeginFind(r, cache, expected, afterClear) ==
    /\ resExpected' = [resExpected EXCEPT ![r] = expected]
    /\ resAfterClear' = [resAfterClear EXCEPT ![r] = afterClear]
    /\ clearPending' = FALSE
    /\ IF Cached(cache)
       THEN /\ resResult' = [resResult EXCEPT ![r] = Returned(cache)]   \* line 548
            /\ resPc' = [resPc EXCEPT ![r] = "done"]
            /\ UNCHANGED <<resIndex, resSpawned>>
       ELSE ProbeFrom(r, 1)

\* An operation calls findPythonExecutable; a forced re-check clears the
\* cache first (lines 732-734, 793-795), in the same step.
FindPythonExecutable(r, forced) ==
    /\ resPc[r] = "idle"
    /\ \A j \in Resolves : j < r => resPc[j] # "idle"   \* operations are numbered in call order
    /\ resKind' = [resKind EXCEPT ![r] = IF forced THEN "forced" ELSE "plain"]
    /\ pythonCmd' = IF forced THEN Null ELSE pythonCmd
    /\ lastSuccess' = IF forced THEN Null ELSE lastSuccess
    /\ BeginFind(r, IF forced THEN Null ELSE pythonCmd,
                    IF forced THEN Null ELSE lastSuccess, forced \/ clearPending)
    /\ ResolveFrame

\* installPython, lines 672-677: the cache is cleared and the installer awaited.
InstallPython(r) ==
    /\ resPc[r] = "idle"
    /\ \A j \in Resolves : j < r => resPc[j] # "idle"
    /\ resKind' = [resKind EXCEPT ![r] = "install"]
    /\ pythonCmd' = Null                                              \* line 675
    /\ lastSuccess' = Null
    /\ clearPending' = TRUE
    /\ resPc' = [resPc EXCEPT ![r] = "installing"]
    /\ UNCHANGED <<resIndex, resSpawned, resResult, resExpected, resAfterClear>>
    /\ ResolveFrame

\* installPython, lines 677-681: the installer ended; after an installation
\* findPythonExecutable is called, a failure leaves installPython.
InstallerDone(r, installed) ==
    /\ resPc[r] = "installing"
    /\ IF installed
       THEN BeginFind(r, pythonCmd, lastSuccess, clearPending)
       ELSE /\ resResult' = [resResult EXCEPT ![r] = Threw("Python installation failed", "")]
            /\ resPc' = [resPc EXCEPT ![r] = "done"]
            /\ UNCHANGED <<resIndex, resSpawned, resExpected, resAfterClear, clearPending>>
    /\ UNCHANGED <<resKind, pythonCmd, lastSuccess>>
    /\ ResolveFrame

\* Lines 608-616: the probe of line 608 ended; a supported version is cached
\* and returned, any other sends the loop to the next candidate.
ProbeClose(r) ==
    /\ resPc[r] = "probing"
    /\ LET pythonPath == CandidateSet(pyEnv)[resIndex[r]]
           version == GetPythonVersion(pyEnv.responses[pythonPath])
       IN IF IsPythonVersionSupported(version)
          THEN /\ pythonCmd' = JoinChars(pythonPath)                   \* line 610
               /\ lastSuccess' = JoinChars(pythonPath)
               /\ resResult' = [resResult EXCEPT ![r] = Returned(JoinChars(pythonPath))]
               /\ resPc' = [resPc EXCEPT ![r] = "done"]
               /\ clearPending' = FALSE
               /\ UNCHANGED <<resIndex, resSpawned>>
          ELSE /\ ProbeFrom(r, resIndex[r] + 1)
               /\ UNCHANGED <<pythonCmd, lastSuccess, clearPending>>
    /\ UNCHANGED <<resKind, resExpected, resAfterClear>>
    /\ ResolveFrame

NextResolve ==
    \/ \E r \in Resolves, forced \in BOOLEAN : FindPythonExecutable(r, forced)
    \/ \E r \in Resolves : InstallPython(r)
    \/ \E r \in Resolves, installed \in BOOLEAN : InstallerDone(r, installed)
    \/ \E r \in Resolves : ProbeClose(r)

\* The machine has any of the environments; envPython says whether it holds
\* a supported interpreter.
InitResolve ==
    \E env \in PyEnvs :
        InitWith(env) /\ envFFmpeg = "unpacked" /\ envPython = Resolvable(env)

SpecResolve == InitResolve /\ [][NextResolve]_vars

(***************************************************************************)
(* The result parser: claims C17 and C18.                                  *)
(***************************************************************************)
\* The line is a JSON object: trimmed, it starts with {, ends with } and parses.
IsJsonObjectLine(line) ==
    LET trimmed == Trim(line)
    IN StartsWith(trimmed, <<"{">>) /\ EndsWith(trimmed, <<"}">>) /\ JsonValid(trimmed)

Parsed == parseOutput # NotParsed

\* C17: a stdout with exactly one line that is a JSON object, among lines of
\* log noise of any shape before and after it (noise in braces included),
\* parses to what that object alone parses to.
C17_EmbeddedJsonParsed ==
    Parsed =>
        \A k \in 1..Len(parseInput) :
            (/\ IsJsonObjectLine(parseInput[k])
             /\ \A h \in 1..Len(parseInput) : h # k => ~IsJsonObjectLine(parseInput[h]))
                => parseOutput = ParseWhisperResult(parseInput[k])

\* The line the parser takes for the worker's result, and its members.
ResultLine == FindJsonLine(parseInput)
ResultMembers == JsonParse(ResultLine).members
WellFormed == ResultLine # <<>> /\ JsonValid(ResultLine)
NoTextIn(members) ==
    \/ members.text.type = "undefined"
    \/ members.text.type = "string" /\ Trim(members.text.chars) = <<>>

\* What C18 says of the results that are returned: a result line with
\* success:false, or with a missing, empty or whitespace-only text, gives the
\* soft outcome {success: false, message}, and {success: true, text} has a
\* trimmed text that is not empty.
SoftAndSuccessOutcomes ==
    /\ (WellFormed /\ (ResultMembers.success = "false" \/ NoTextIn(ResultMembers)))
           => (parseOutput.kind = "return" /\ ~parseOutput.success
               /\ parseOutput.message # "")
    /\ (parseOutput.kind = "return" /\ parseOutput.success)
           => (parseOutput.text # <<>> /\ Trim(parseOutput.text) = parseOutput.text)
    /\ ~WellFormed => parseOutput.kind = "throw"

\* C18 as claimed: the soft and success outcomes are as above, and the parser
\* throws only when no line is a complete JSON object or that line does not
\* parse.
C18_ThrowsOnlyOnUnparseable ==
    Parsed =>
        /\ SoftAndSuccessOutcomes
        /\ parseOutput.kind = "throw" => ~WellFormed

\* C18 as amended: the soft and success outcomes are as above, and the parser
\* throws only when no line is a complete JSON object, when that line does not
\* parse, or when its text is a value that is neither a string nor falsy (and
\* success is not false): text.trim is then not a function.
C18_ThrowsOnlyOnMalformed ==
    Parsed =>
        /\ SoftAndSuccessOutcomes
        /\ parseOutput.kind = "throw"
               => \/ ~WellFormed
                  \/ /\ ResultMembers.success # "false"
                     /\ ResultMembers.text.type \notin {"undefined", "string"}
        /\ (WellFormed /\ ResultMembers.success # "false"
                /\ ResultMembers.text.type \notin {"undefined", "string"})
               => parseOutput.kind = "throw"

\* C18 witness: a result line with a whitespace-only text, after a line of
\* noise, gave the soft outcome.
C18_Witness ==
    /\ Parsed /\ Len(parseInput) >= 2 /\ WellFormed
    /\ ResultMembers.text.type = "string" /\ ResultMembers.text.chars # <<>>
    /\ ResultMembers.success = "true"
    /\ parseOutput = ParseSoft(NoTextMessage)

(***************************************************************************)
(* The interpreter resolver: claims C21 to C25.                            *)
(***************************************************************************)
\* The operation's findPythonExecutable call has begun.
FindBegan(r) ==
    /\ resPc[r] \in {"probing", "done"}
    /\ resResult[r] # Threw("Python installation failed", "")

SupportedCandidate(candidate) ==
    LET response == pyEnv.responses[candidate]
    IN /\ IsAbsolute(candidate) => response.exists
       /\ ~response.error /\ response.code = 0
       /\ response.output # <<>> /\ response.output[2] = "3" /\ response.output[3] = "."
FindEnded(r) == FindBegan(r) /\ resPc[r] = "done"
NotFound(r) == resResult[r] = Threw(PythonNotFound, "")

\* C22: a findPythonExecutable call fails with the not-found error if and only
\* if no candidate is a supported interpreter; after such a failure the cache
\* is empty and any later call has probed again.
C22_NotFoundIffNoSupportedCandidate ==
    \A r \in Resolves :
        FindEnded(r) =>
            /\ NotFound(r) <=>
                   ~\E k \in 1..Len(CandidateSet(pyEnv)) :
                        SupportedCandidate(CandidateSet(pyEnv)[k])
            /\ NotFound(r) =>
                   /\ pythonCmd = Null
                   /\ \A q \in Resolves : q > r /\ FindBegan(q) => resSpawned[q] # <<>>

\* C22 witness: the python3 of the PATH prints a 3.x version and exits with 1,
\* an absolute candidate is a 2.7; the first call failed, and the second
\* probed again and failed.
C22_Witness ==
    /\ FindEnded(1) /\ NotFound(1) /\ FindEnded(2) /\ NotFound(2)
    /\ resKind[2] = "plain" /\ Len(resSpawned[2]) >= 2
    /\ pyEnv.responses[<<"python3">>].code = 1
    /\ \E c \in CandidateNames :
           IsAbsolute(c) /\ pyEnv.responses[c].exists /\ pyEnv.responses[c].output[2] = "2"

\* The position of the candidate in candidateSet.
PositionOf(text) ==
    CHOOSE k \in 1..Len(CandidateSet(pyEnv)) : JoinChars(CandidateSet(pyEnv)[k]) = text

\* C23: a resolution that probes returns the first candidate, in candidate
\* order, that is a supported interpreter, and spawns no candidate after it;
\* all calls on the machine end with the same result.
C23_FirstSupportedWins ==
    /\ \A r \in Resolves :
          (FindEnded(r) /\ resResult[r].kind = "return" /\ resSpawned[r] # <<>>) =>
              LET candidateSet == CandidateSet(pyEnv)
                  k == PositionOf(resResult[r].diag)
              IN /\ SupportedCandidate(candidateSet[k])
                 /\ \A j \in 1..(k - 1) : ~SupportedCandidate(candidateSet[j])
                 /\ \A n \in 1..Len(resSpawned[r]) :
                        \A j \in (k + 1)..Len(candidateSet) : resSpawned[r][n] # candidateSet[j]
    /\ \A r, q \in Resolves : FindEnded(r) /\ FindEnded(q) => resResult[r] = resResult[q]

\* C23 witness: the candidates are A (a 2.7), B (a 3.9) and C (a 3.11); the
\* call returned B after spawning A and B only.
C23_Witness ==
    /\ CandidateSet(pyEnv) = PyenvShims \o CommonCandidates
    /\ pyEnv.responses[PyenvShims[1]].output = <<"Python ", "2", ".", "7">>
    /\ pyEnv.responses[CommonCandidates[1]] = Response(TRUE, FALSE, 0, <<"Python ", "3", ".", "9">>)
    /\ pyEnv.responses[CommonCandidates[2]].output = <<"Python ", "3", ".", "1", "1">>
    /\ FindEnded(1) /\ resResult[1] = Returned("python3")
    /\ resSpawned[1] = <<PyenvShims[1], CommonCandidates[1]>>

\* C24: within one resolution no absolute candidate that does not exist is
\* spawned, and no candidate is spawned twice.
C24_NoMissingNoDuplicateProbe ==
    \A r \in Resolves :
        \A n \in 1..Len(resSpawned[r]) :
            /\ IsAbsolute(resSpawned[r][n]) => pyEnv.responses[resSpawned[r][n]].exists
            /\ \A m \in 1..Len(resSpawned[r]) : m # n => resSpawned[r][m] # resSpawned[r][n]

\* C24 witness: the override names python3, which the common names hold too,
\* and one absolute candidate does not exist; the resolution went through all
\* candidates and spawned python3 once and the missing one never.
C24_Witness ==
    /\ StripQuotes(Trim(pyEnv.override)) = <<"python3">>
    /\ ~pyEnv.responses[PyenvShims[1]].exists
    /\ pyEnv.responses[CommonCandidates[2]].exists
    /\ FindEnded(1) /\ NotFound(1)
    /\ resSpawned[1] = << <<"python3">>, CommonCandidates[2] >>

\* C25: at most one interpreter probe of the instance is in flight.
C25_OneProbeInFlight ==
    Cardinality({r \in Resolves : resPc[r] = "probing"}) <= 1
(***************************************************************************)
(* The decoder locator: claims C26 and C27.                                *)
(***************************************************************************)
\* C26: a getFFmpegPath call that begins after a call has returned returns
\* the path that call returned, without a look at the filesystem and without
\* a probe of the system binary; all calls return the same path.
C26_ResolvedOnce ==
    /\ \A l \in Locates :
          (locPc[l] # "idle" /\ locBegan[l] > 0) =>
              /\ locReturn[l] = LocateResult("return", locResults[1].path, "none", "none")
              /\ ~locFs[l]
    /\ \A k \in 1..Len(locResults) : locResults[k].path = locResults[1].path

\* C26 witness: the first call found the bundled binary on the filesystem;
\* the second began after it and returned the same path.
C26_Witness ==
    /\ locPc = [l \in Locates |-> "done"]
    /\ locFs[1] /\ locReturn[1].kind = "return" /\ locReturn[1].caught = "none"
    /\ locBegan[2] = 1 /\ ~locFs[2]
    /\ locReturn[2].path = locReturn[1].path

\* The bundled candidates of the environment: the path of lines 227-245 and
\* its alternatives.
BundledCandidates(env) ==
    LET primary == PrimaryPath(env).path
    IN {primary} \cup {PossiblePaths(env, primary)[k] : k \in 1..3}
BundledMissing(env) ==
    /\ PrimaryPath(env).thrown = "none"
    /\ \A path \in BundledCandidates(env) : ~ExistsSync(env, path)
BundledNotExecutable(env) ==
    /\ PrimaryPath(env).thrown = "none"
    /\ \E path \in BundledCandidates(env) : ExistsSync(env, path)
    /\ ~env.executable

\* C27: a call that finds no bundled candidate, or a bundled candidate that
\* is not executable, returns the name of the system binary, however the
\* probe of the system binary ended.
C27_SystemNameIsLastResort ==
    \A l \in Locates :
        (locFs[l] /\ (BundledMissing(locEnv) \/ BundledNotExecutable(locEnv))) =>
            /\ locPc[l] = "probing"
                   \/ /\ locPc[l] = "done"
                      /\ locReturn[l].kind = "return"
                      /\ locReturn[l].path = BinaryName(locEnv.win32)
                      /\ locReturn[l].probe \in ProbeOutcomes

\* C27 witness: no bundled candidate exists; of two calls, one had its probe
\* succeed and one had it fail, and both returned the system name.
C27_Witness ==
    /\ BundledMissing(locEnv)
    /\ \E l, m \in Locates :
          /\ locReturn[l] = LocateResult("return", BinaryName(locEnv.win32), "not found", "resolved")
          /\ locReturn[m] = LocateResult("return", BinaryName(locEnv.win32), "not found", "rejected")

(***************************************************************************)
(* The installer's chains: claims C28 to C30.                              *)
(***************************************************************************)
\* The pip upgrade chain of the call is over: the call is at the package
\* install or has ended.
UpgradeChainOver ==
    installPc \in {"install", "installUser", "installLegacy", "installUserLegacy", "done"}

\* C28: the pip upgrade commands of a call use, in this order, the standard,
\* the user-scoped and the legacy-resolver variant, each one after a failed
\* one; a chain that is over after a failed command has run all three; when
\* all three fail the call ends with the upgrade failure and no package
\* install is run.
C28_UpgradeChainOrder ==
    LET pip == ChainAttempts("pip")
        pk == ChainAttempts("package")
        order == <<"standard", "user", "legacyResolver">>
    IN /\ Len(pip) <= 3
       /\ \A k \in 1..Len(pip) : k <= 3 => pip[k].strategy = order[k]
       /\ \A k \in 2..Len(pip) : ~pip[k - 1].ok
       /\ (UpgradeChainOver /\ pip # <<>> /\ ~pip[Len(pip)].ok) => Len(pip) = 3
       /\ (Len(pip) = 3 /\ ~pip[3].ok)
              => /\ installPc = "done"
                 /\ installOutcome = Threw(UpgradeFailed, "")
                 /\ pk = <<>>

\* C28 as the code has it: the first variant is the user-scoped one on darwin
\* and the standard one elsewhere, the second is the user-scoped one, and the
\* legacy-resolver variant is the third exactly when one of the two failures
\* carries a resolver signature; without one the call goes on to the package
\* install after two failed upgrades.  Each command follows a failed one, and
\* three failures end the call with the upgrade failure and no package
\* install.
C28_UpgradeChainOrderByPlatform ==
    LET pip == ChainAttempts("pip")
        pk == ChainAttempts("package")
        order == <<IF platform = "darwin" THEN "user" ELSE "standard", "user", "legacyResolver">>
    IN /\ Len(pip) <= 3
       /\ \A k \in 1..Len(pip) : k <= 3 => pip[k].strategy = order[k]
       /\ \A k \in 2..Len(pip) : ~pip[k - 1].ok
       /\ (UpgradeChainOver /\ pip # <<>> /\ ~pip[Len(pip)].ok)
              => /\ Len(pip) >= 2
                 /\ Len(pip) = 3 <=> (pip[1].message.toml \/ pip[2].message.toml)
       /\ (Len(pip) = 3 /\ ~pip[3].ok)
              => /\ installPc = "done"
                 /\ installOutcome = Threw(UpgradeFailed, "")
                 /\ pk = <<>>

\* C28 witness: off darwin the three variants failed in order and the call
\* ended with the upgrade failure.
C28_Witness ==
    LET pip == ChainAttempts("pip")
    IN /\ platform = "linux"
       /\ Len(pip) = 3
       /\ \A k \in 1..3 : ~pip[k].ok
       /\ pip[3].strategy = "legacyResolver"
       /\ installOutcome = Threw(UpgradeFailed, "")
       /\ ChainAttempts("package") = <<>>

\* C29: when a call ends without an installed package and its first package
\* install or its user-scoped retry failed with a resolver signature, the
\* call has run a package install with the legacy resolver, and one with the
\* legacy resolver and user scope when one of these two failures carries a
\* permission signature.
C29_ResolverFailureRetriedWithLegacy ==
    LET pk == ChainAttempts("package")
        early == {k \in 1..Len(pk) : pk[k].strategy \in {"standard", "user"} /\ ~pk[k].ok}
    IN (/\ installPc = "done"
        /\ installOutcome # Returned("installed")
        /\ \E k \in early : pk[k].message.toml)
           => /\ \E j \in 1..Len(pk) : pk[j].strategy \in {"legacyResolver", "user+legacy"}
              /\ (\E k \in early : pk[k].message.permission)
                     => \E j \in 1..Len(pk) : pk[j].strategy = "user+legacy"

\* C30: when the package chain of a call ends on a failed command, the error
\* the call throws carries the build-tools message when the command's message
\* has the Visual C++ signature, else the Python-incompatibility message when
\* it has the 'no matching distribution' signature, else the command's
\* message without its colour sequences, whichever strategy that command used.
C30_TerminalFailureReformatted ==
    LET pk == ChainAttempts("package")
        last == pk[Len(pk)]
    IN (installPc = "done" /\ pk # <<>> /\ ~last.ok)
           => /\ installOutcome = Threw(InstallFailed, "")
              /\ installError = IF last.message.visualCpp THEN BuildToolsRequired
                                ELSE IF last.message.noMatch THEN PythonIncompatible
                                ELSE Original([last.message EXCEPT !.ansi = FALSE])

(***************************************************************************)
(* The temporary files of overlapping transcribeLocalWhisper calls, by     *)
(* name (lines 135-216, 310, 538-544).  A file is named after a UUID of    *)
(* crypto.randomUUID (line 176), which is all that tells two files of      *)
(* os.tmpdir() apart.                                                      *)
(***************************************************************************)
UUIDs == 1..(MaxCalls + 1)

\* A name that does not depend on the call (one file name for all calls).
RandomUUID_Constant(returned) == {1}

\* crypto.randomUUID(): a version 4 UUID, which is one that no earlier call
\* has returned.
RandomUUID(returned) == UUIDs \ returned

ArtifactFrame ==
    UNCHANGED <<envVars, cacheVars, tvars, dvars, closeEvent, progressVars, opVars,
                installVars, parseVars, matVars, locVars, resolveVars, reasonVars, audioVars>>

\* Lines 136 and 174-216: createTempAudioFile names the file (line 176) and
\* writes it (line 198); it throws on an empty file (line 212), past the try
\* of line 143, and returns the path otherwise.
NameAndWriteTempAudioFile(i, uuid, empty) ==
    /\ artPc[i] = "idle"
    /\ uuid \in RandomUUID(uuids)
    /\ uuids' = uuids \cup {uuid}
    /\ artFiles' = artFiles \cup {uuid}
    /\ IF empty
       THEN artPc' = [artPc EXCEPT ![i] = "done"] /\ UNCHANGED tempAudioPath
       ELSE /\ artPc' = [artPc EXCEPT ![i] = "run"]
            /\ tempAudioPath' = [tempAudioPath EXCEPT ![i] = uuid]
    /\ UNCHANGED <<workerArg, unlinked>>
    /\ ArtifactFrame

\* Lines 145-149 and 298-386: runWhisperProcess puts its tempAudioPath
\* parameter in the worker's arguments (line 310) and spawns the worker, or
\* throws before it does (lines 302, 306).
SpawnWithTempAudioPath(i, spawned) ==
    /\ artPc[i] = "run"
    /\ IF spawned
       THEN /\ workerArg' = [workerArg EXCEPT ![i] = tempAudioPath[i]]
            /\ artPc' = [artPc EXCEPT ![i] = "await"]
       ELSE /\ artPc' = [artPc EXCEPT ![i] = "cleanup"]
            /\ UNCHANGED workerArg
    /\ UNCHANGED <<uuids, tempAudioPath, artFiles, unlinked>>
    /\ ArtifactFrame

\* The promise of runWhisperProcess settles: the call goes on to the finally
\* of line 165.
WorkerSettled(i) ==
    /\ artPc[i] = "await"
    /\ artPc' = [artPc EXCEPT ![i] = "cleanup"]
    /\ UNCHANGED <<uuids, tempAudioPath, artFiles, workerArg, unlinked>>
    /\ ArtifactFrame

\* Line 167 and lines 538-544: cleanupTempFile(tempAudioPath) unlinks the file
\* of that name.
UnlinkTempAudioPath(i) ==
    /\ artPc[i] = "cleanup"
    /\ artFiles' = artFiles \ {tempAudioPath[i]}
    /\ unlinked' = [unlinked EXCEPT ![i] = tempAudioPath[i]]
    /\ artPc' = [artPc EXCEPT ![i] = "done"]
    /\ UNCHANGED <<uuids, tempAudioPath, workerArg>>
    /\ ArtifactFrame

NextArtifacts ==
    \/ \E i \in Calls, uuid \in UUIDs, empty \in BOOLEAN : NameAndWriteTempAudioFile(i, uuid, empty)
    \/ \E i \in Calls, spawned \in BOOLEAN : SpawnWithTempAudioPath(i, spawned)
    \/ \E i \in Calls : WorkerSettled(i)
    \/ \E i \in Calls : UnlinkTempAudioPath(i)

SpecArtifacts == InitDownload /\ [][NextArtifacts]_vars

(***************************************************************************)
(* LocalReasoningService.processText (part_001 lines 91-182; the same      *)
(* guard, try and finally in LocalReasoningService.ts lines 66-188).       *)
(***************************************************************************)
AlreadyProcessing == "Already processing a request"
OllamaNotRunning == "Ollama is not running"
InferenceFailed == "inference failed"

ReasoningFrame ==
    UNCHANGED <<envVars, cacheVars, tvars, dvars, closeEvent, progressVars, opVars,
                installVars, parseVars, matVars, locVars, resolveVars, artVars, audioVars>>

\* A guard inside the try: the finally clears the flag after the rejection.
FlagAfterRejection_Cleared(flag) == FALSE

\* Lines 99-101: the guard throws before the try of line 106, so the finally
\* of line 179 does not run and the flag stays as it is.
FlagAfterRejection(flag) == flag

\* Lines 91-146: the call up to its first await.  The guard of line 99
\* rejects it while the flag is set; otherwise it sets the flag (line 103) and
\* goes on to the Ollama availability check for a model name with a colon
\* (line 135) or to the llama.cpp inference (line 146).
ProcessText(c, ollamaModel) ==
    /\ rsPc[c] = "idle"
    /\ rsBusyAtCall' = [rsBusyAtCall EXCEPT ![c] = reasoningIsProcessing]
    /\ IF reasoningIsProcessing
       THEN /\ rsOutcome' = [rsOutcome EXCEPT ![c] = Threw(AlreadyProcessing, "")]
            /\ rsPc' = [rsPc EXCEPT ![c] = "done"]
            /\ reasoningIsProcessing' = FlagAfterRejection(reasoningIsProcessing)
            /\ UNCHANGED rsInference
       ELSE /\ reasoningIsProcessing' = TRUE
            /\ rsPc' = [rsPc EXCEPT ![c] = IF ollamaModel THEN "availability" ELSE "inference"]
            /\ rsInference' = [rsInference EXCEPT ![c] = ~ollamaModel]
            /\ UNCHANGED rsOutcome
    /\ ReasoningFrame

\* Lines 135-144: the availability check has returned.  The generation is
\* started, or the error of line 142 is thrown, caught at line 166, thrown
\* again (line 177), and the finally clears the flag (line 179).
OllamaAvailability(c, available) ==
    /\ rsPc[c] = "availability"
    /\ IF available
       THEN /\ rsPc' = [rsPc EXCEPT ![c] = "inference"]
            /\ rsInference' = [rsInference EXCEPT ![c] = TRUE]
            /\ UNCHANGED <<reasoningIsProcessing, rsOutcome>>
       ELSE /\ rsPc' = [rsPc EXCEPT ![c] = "done"]
            /\ rsOutcome' = [rsOutcome EXCEPT ![c] = Threw(OllamaNotRunning, "")]
            /\ reasoningIsProcessing' = FALSE
            /\ UNCHANGED rsInference
    /\ UNCHANGED rsBusyAtCall
    /\ ReasoningFrame

\* Lines 137-180: the inference has ended.  The result is returned (line 165)
\* or the error thrown again (line 177); the finally clears the flag.
InferenceDone(c, ok) ==
    /\ rsPc[c] = "inference"
    /\ rsPc' = [rsPc EXCEPT ![c] = "done"]
    /\ rsOutcome' = [rsOutcome EXCEPT ![c] =
           IF ok THEN Returned("result") ELSE Threw(InferenceFailed, "")]
    /\ reasoningIsProcessing' = FALSE
    /\ UNCHANGED <<rsBusyAtCall, rsInference>>
    /\ ReasoningFrame

NextReasoning ==
    \/ \E c \in Reasonings, ollamaModel \in BOOLEAN : ProcessText(c, ollamaModel)
    \/ \E c \in Reasonings, available \in BOOLEAN : OllamaAvailability(c, available)
    \/ \E c \in Reasonings, ok \in BOOLEAN : InferenceDone(c, ok)

SpecReasoning == InitDownload /\ [][NextReasoning]_vars

(***************************************************************************)
(* AudioManager: startRecording (lines 1340-1405), stopRecording           *)
(* (1407-1421), the recorder's onstop (1355-1375), processAudio            *)
(* (1423-1481), processWithLocalWhisper (1483-1554) and                    *)
(* processWithOpenAIAPI (1849-1961).  The callbacks are set and return.    *)
(***************************************************************************)
AudioFrame ==
    UNCHANGED <<envVars, cacheVars, tvars, dvars, closeEvent, progressVars, opVars,
                installVars, parseVars, matVars, locVars, resolveVars, artVars, reasonVars>>

GetState == State(isRecording, isProcessing)

AllSettings ==
    {Settings(l, o, f) : l \in BOOLEAN, o \in BOOLEAN, f \in BOOLEAN}

NoAudioDetected == "No audio detected"
LocalFailed == "Local Whisper failed"
LocalAndFallbackFailed == "Local Whisper failed. OpenAI fallback also failed"
CloudFailed == "OpenAI API failed"
CloudAndFallbackFailed == "OpenAI API failed. Local fallback also failed"

\* What window.electronAPI.transcribeLocalWhisper gives processWithLocalWhisper
\* (lines 1500-1529): a text, the soft result with the no-audio message, or
\* anything else (another soft result, a rejection).
LocalResults == {"text", "noAudio", "failed"}

\* Lines 1342-1346: the guard and the call of getUserMedia.
StartRecording(k) ==
    /\ recPc[k] = "idle"
    /\ \A j \in Recordings : j < k => recPc[j] # "idle"       \* numbered in call order
    /\ recPc' = [recPc EXCEPT ![k] = IF isRecording THEN "refused" ELSE "starting"]
    /\ UNCHANGED <<isRecording, isProcessing, mediaRecorder, stateChange, settings, paPc,
                   transcriptions, callbacks, paOutcome>>
    /\ AudioFrame

\* Lines 1346-1404: getUserMedia has settled.  With a stream the recorder is
\* created and started and the state reported (lines 1349-1378); without one
\* onError is called (line 1398).
GetUserMediaDone(k, granted) ==
    /\ recPc[k] = "starting"
    /\ IF granted
       THEN /\ mediaRecorder' = k
            /\ isRecording' = TRUE
            /\ stateChange' = <<State(TRUE, FALSE)>>
            /\ recPc' = [recPc EXCEPT ![k] = "recording"]
            /\ UNCHANGED callbacks
       ELSE /\ callbacks' = [callbacks EXCEPT ![k] = Append(@, "onError: Recording Error")]
            /\ recPc' = [recPc EXCEPT ![k] = "denied"]
            /\ UNCHANGED <<mediaRecorder, isRecording, stateChange>>
    /\ UNCHANGED <<isProcessing, settings, paPc, transcriptions, paOutcome>>
    /\ AudioFrame

\* Lines 1407-1421: stopRecording, when its guard holds and the recorder of
\* this.mediaRecorder is recording.
StopRecording ==
    /\ mediaRecorder # NoRecorder /\ isRecording
    /\ recPc[mediaRecorder] = "recording"
    /\ recPc' = [recPc EXCEPT ![mediaRecorder] = "stopping"]
    /\ UNCHANGED <<isRecording, isProcessing, mediaRecorder, stateChange, settings, paPc,
                   transcriptions, callbacks, paOutcome>>
    /\ AudioFrame

\* A fallback test that takes every mode for the cloud mode.
IsOpenAIMode_Always(s) == TRUE

\* Line 1929: localStorage.getItem("useLocalWhisper") !== "true".
IsOpenAIMode(s) == ~s.useLocalWhisper

\* Line 1540.
IsLocalMode(s) == s.useLocalWhisper

\* A catch that reports every error.
ReportsError_Always(message) == TRUE

\* Line 1467: error.message !== "No audio detected".
ReportsError(message) == message # NoAudioDetected

\* Lines 1355-1371 and 1423-1436: the recorder's onstop sets and reports the
\* state and calls processAudio, which reads the mode and starts the local or
\* the cloud transcription.  s is localStorage, which stays as it is for the
\* whole call.
RecorderStop(k, s) ==
    /\ recPc[k] = "stopping"
    /\ recPc' = [recPc EXCEPT ![k] = "stopped"]
    /\ isRecording' = FALSE
    /\ isProcessing' = TRUE
    /\ stateChange' = <<State(FALSE, TRUE)>>
    /\ settings' = [settings EXCEPT ![k] = s]
    /\ paPc' = [paPc EXCEPT ![k] = IF s.useLocalWhisper THEN "local" ELSE "cloud"]
    /\ transcriptions' = [transcriptions EXCEPT ![k] =
           <<IF s.useLocalWhisper THEN "local" ELSE "cloud">>]
    /\ UNCHANGED <<mediaRecorder, callbacks, paOutcome>>
    /\ AudioFrame

\* Lines 1437-1480: the end of processAudio.  The try block returned the
\* result (onTranscriptionComplete, line 1439) or threw (onError at line 1468
\* unless the message is the no-audio one); the finally clears the flag and
\* reports the state.  earlier are the callbacks made before the try ended.
EndProcessAudio(k, earlier, ended) ==
    /\ paPc' = [paPc EXCEPT ![k] = "done"]
    /\ paOutcome' = [paOutcome EXCEPT ![k] = ended]
    /\ callbacks' = [callbacks EXCEPT ![k] =
           @ \o earlier
             \o (IF ended.kind = "return" THEN <<"onTranscriptionComplete">>
                 ELSE IF ReportsError(ended.err) THEN <<"onError: Transcription Error">>
                 ELSE <<>>)]
    /\ isProcessing' = FALSE
    /\ stateChange' = <<State(FALSE, FALSE)>>
    /\ settings' = [settings EXCEPT ![k] = Settings(FALSE, FALSE, FALSE)]
    /\ UNCHANGED <<isRecording, mediaRecorder, recPc>>

\* Lines 1500-1553: the local transcription of processWithLocalWhisper has
\* ended.  A text is returned; the no-audio result calls onError (line 1522)
\* and throws past the fallback (lines 1535-1537); any other failure goes to
\* the cloud when the settings allow it (line 1542) and is thrown otherwise.
LocalWhisperDone(k, result) ==
    /\ paPc[k] = "local"
    /\ CASE result = "text" ->
                EndProcessAudio(k, <<>>, Returned("local")) /\ UNCHANGED transcriptions
         [] result = "noAudio" ->
                /\ EndProcessAudio(k, <<"onError: No Audio Detected">>, Threw(NoAudioDetected, ""))
                /\ UNCHANGED transcriptions
         [] OTHER ->
                IF settings[k].allowOpenAIFallback /\ IsLocalMode(settings[k])
                THEN /\ paPc' = [paPc EXCEPT ![k] = "cloudFallback"]          \* line 1545
                     /\ transcriptions' = [transcriptions EXCEPT ![k] = Append(@, "cloud")]
                     /\ UNCHANGED <<isRecording, isProcessing, mediaRecorder, stateChange,
                                    recPc, settings, callbacks, paOutcome>>
                ELSE /\ EndProcessAudio(k, <<>>, Threw(LocalFailed, ""))     \* line 1551
                     /\ UNCHANGED transcriptions
    /\ AudioFrame

\* Lines 1849-1960: the cloud transcription of processWithOpenAIAPI has ended,
\* called by processAudio (cloud) or by the fallback of line 1545
\* (cloudFallback).  A failure goes to the local transcription of line 1939
\* when the settings allow it (line 1931) and is thrown otherwise, to
\* processAudio or to the catch of line 1547.
OpenAIDone(k, ok) ==
    /\ paPc[k] \in {"cloud", "cloudFallback"}
    /\ IF ok
       THEN /\ EndProcessAudio(k, <<>>, Returned(IF paPc[k] = "cloud" THEN "openai"
                                                ELSE "openai-fallback"))
            /\ UNCHANGED transcriptions
       ELSE IF settings[k].allowLocalFallback /\ IsOpenAIMode(settings[k])
       THEN /\ paPc' = [paPc EXCEPT ![k] = IF paPc[k] = "cloud" THEN "localFallback"
                                           ELSE "localFallbackOfFallback"]
            /\ transcriptions' = [transcriptions EXCEPT ![k] = Append(@, "local")]
            /\ UNCHANGED <<isRecording, isProcessing, mediaRecorder, stateChange, recPc,
                           settings, callbacks, paOutcome>>
       ELSE /\ EndProcessAudio(k, <<>>, Threw(IF paPc[k] = "cloud" THEN CloudFailed
                                              ELSE LocalAndFallbackFailed, ""))
            /\ UNCHANGED transcriptions
    /\ AudioFrame

\* Lines 1939-1954: the local transcription of the cloud path's fallback has
\* ended: its text is returned, anything else is thrown with both messages
\* (line 1951), and to the catch of line 1547 when the cloud path was itself
\* a fallback.
LocalFallbackDone(k, result) ==
    /\ paPc[k] \in {"localFallback", "localFallbackOfFallback"}
    /\ EndProcessAudio(k, <<>>,
           IF result = "text"
           THEN Returned(IF paPc[k] = "localFallback" THEN "local-fallback"
                         ELSE "openai-fallback")
           ELSE Threw(IF paPc[k] = "localFallback" THEN CloudAndFallbackFailed
                      ELSE LocalAndFallbackFailed, ""))
    /\ UNCHANGED transcriptions
    /\ AudioFrame

NextAudio ==
    \/ \E k \in Recordings : StartRecording(k)
    \/ \E k \in Recordings, granted \in BOOLEAN : GetUserMediaDone(k, granted)
    \/ StopRecording
    \/ \E k \in Recordings, s \in AllSettings : RecorderStop(k, s)
    \/ \E k \in Recordings, result \in LocalResults : LocalWhisperDone(k, result)
    \/ \E k \in Recordings, ok \in BOOLEAN : OpenAIDone(k, ok)
    \/ \E k \in Recordings, result \in LocalResults : LocalFallbackDone(k, result)

SpecAudio == InitDownload /\ [][NextAudio]_vars

(***************************************************************************)
(* Claims C31 to C39.                                                      *)
(***************************************************************************)
\* A call between the return of createTempAudioFile and the end of its cleanup.
ArtLive(i) == artPc[i] \in {"run", "await", "cleanup"}

\* C31: two live transcribeLocalWhisper calls have different temporary files,
\* the file of a live call exists, the audio path in a worker's arguments is
\* the file of its own call and of no other, and the file a call's cleanup
\* unlinked is its own and of no other call.
C31_OwnTemporaryFile ==
    \A i \in Calls :
        /\ ArtLive(i) => tempAudioPath[i] \in artFiles
        /\ workerArg[i] # NoPath => workerArg[i] = tempAudioPath[i]
        /\ unlinked[i] # NoPath => unlinked[i] = tempAudioPath[i]
        /\ \A j \in Calls \ {i} :
               /\ (ArtLive(i) /\ ArtLive(j)) => tempAudioPath[i] # tempAudioPath[j]
               /\ workerArg[i] # NoPath => workerArg[i] # tempAudioPath[j]
               /\ unlinked[i] # NoPath => unlinked[i] # tempAudioPath[j]

\* C31 witness: one call has unlinked its file while the worker of another
\* call runs on a file that is still there.
C31_Witness ==
    \E i \in Calls : \E j \in Calls \ {i} :
        /\ artPc[i] = "done" /\ unlinked[i] # NoPath /\ workerArg[i] # NoPath
        /\ artPc[j] = "await" /\ workerArg[j] \in artFiles

\* C32: the 3-second timer of a cancelDownload() call sends SIGKILL to no
\* process but the one that call sent SIGTERM to.
C32_ForcedKillOnlyOfCancelledDownload ==
    \A c \in Cancels : cancels[c].forced \in {NoProcess, cancels[c].target}

\* C33: once the promise of the download has settled, the progress callback is
\* not invoked again.
C33_NoProgressAfterSettled ==
    [][dlPromise[1] # Pending => progressCalls' = progressCalls]_vars

\* C34: an installWhisper call ends, having run at most three pip upgrade
\* commands and after them at most three package installs, and no upgrade
\* command after a package install.
C34_InstallBounded ==
    /\ [](/\ Len(ChainAttempts("pip")) <= 3
          /\ Len(ChainAttempts("package")) <= 3
          /\ \A j \in 1..Len(attempts) : \A k \in 1..Len(attempts) :
                 (j < k /\ attempts[j].chain = "package") => attempts[k].chain = "package")
    /\ <>(installPc = "done")

\* C34 witness: a call has ended after three upgrade commands and three
\* package installs.
C34_Witness ==
    /\ installPc = "done"
    /\ Len(ChainAttempts("pip")) = 3
    /\ Len(ChainAttempts("package")) = 3

\* C35: with calls made one after the other, the call that follows a finished
\* one takes the availability from the cache: it spawns no check process and
\* works on the very result the earlier call got, whatever produced that
\* result; after an unavailable result it fails with the FFmpeg-not-available
\* error without having spawned any process.
C35_AvailabilityComputedOnce ==
    \A i \in Calls : \A j \in Calls :
        (j < i /\ pc[i] # "idle")
            => /\ cacheHit[i]
               /\ "check" \notin effects[i]
               /\ ffmpegCheck[i] = ffmpegCheck[j]
               /\ ffmpegCheck[i] = cachedFFmpegAvailability
               /\ (~ffmpegCheck[j].available /\ pc[i] = "done")
                      => /\ outcome[i].kind = "throw"
                         /\ outcome[i].err = "FFmpeg not available"
                         /\ effects[i] = {}

\* C35 witness: the first call cached the unavailable result of the error
\* path (no interpreter), and the second call has failed on it.
C35_Witness ==
    \E i \in Calls : \E j \in Calls :
        /\ j < i
        /\ "check" \notin effects[j]
        /\ ffmpegCheck[j] = CheckResult(FALSE, PythonNotFound)
        /\ pc[i] = "done"
        /\ outcome[i] = Threw("FFmpeg not available", PythonNotFound)

\* The processText calls that hold the flag: past the guard and not ended.
InFlight == {c \in Reasonings : rsPc[c] \in {"availability", "inference"}}

\* C36: at most one processText call is in flight; the busy flag is set
\* exactly while one is, so a rejected call leaves it set and a call that
\* returned or threw has cleared it; a call made while the flag is set is
\* rejected with 'Already processing a request' and starts no inference, and
\* no other call is rejected so.
C36_ProcessTextExclusive ==
    /\ Cardinality(InFlight) <= 1
    /\ reasoningIsProcessing <=> InFlight # {}
    /\ \A c \in Reasonings :
           /\ (rsPc[c] # "idle" /\ rsBusyAtCall[c])
                  => /\ rsOutcome[c] = Threw(AlreadyProcessing, "")
                     /\ ~rsInference[c]
           /\ rsOutcome[c] = Threw(AlreadyProcessing, "") => rsBusyAtCall[c]

\* C36 witness: a call was rejected while another is at its inference, and a
\* third call had returned before.
C36_Witness ==
    \E a \in Reasonings, b \in Reasonings, c \in Reasonings :
        /\ rsOutcome[a] = Returned("result")
        /\ rsPc[b] = "inference"
        /\ rsOutcome[c] = Threw(AlreadyProcessing, "")
        /\ reasoningIsProcessing

\* C37: a processAudio call makes at most two transcription attempts, and the
\* second is on the other path than the first.
C37_OneFallbackHop ==
    \A k \in Recordings :
        /\ Len(transcriptions[k]) <= 2
        /\ Len(transcriptions[k]) = 2 => transcriptions[k][1] # transcriptions[k][2]

\* C37 witness: with both fallbacks allowed, a call in local mode has ended
\* after the local attempt and the cloud fallback failed, and a call in cloud
\* mode after the cloud attempt and the local fallback failed.
C37_Witness ==
    \E j \in Recordings, k \in Recordings :
        /\ transcriptions[j] = <<"local", "cloud">>
        /\ paOutcome[j] = Threw(LocalAndFallbackFailed, "")
        /\ transcriptions[k] = <<"cloud", "local">>
        /\ paOutcome[k] = Threw(CloudAndFallbackFailed, "")

\* C38: the step that ends a processAudio call leaves isProcessing false and
\* reports the state {isRecording: false, isProcessing: false}; the call has
\* made one callback: onTranscriptionComplete when a transcription was
\* returned, one onError when it failed.
C38_OneCallbackPerCall ==
    [][\A k \in Recordings :
          (paPc[k] # "done" /\ paPc'[k] = "done")
              => /\ isProcessing' = FALSE
                 /\ stateChange' = <<State(FALSE, FALSE)>>
                 /\ Len(callbacks'[k]) = 1
                 /\ paOutcome'[k].kind = "return"
                        <=> callbacks'[k] = <<"onTranscriptionComplete">>]_vars

\* C38 witness: a call has ended on the no-audio result with the one onError
\* call of processWithLocalWhisper.
C38_Witness ==
    \E k \in Recordings :
        /\ paPc[k] = "done"
        /\ paOutcome[k] = Threw(NoAudioDetected, "")
        /\ callbacks[k] = <<"onError: No Audio Detected">>
        /\ ~isProcessing

\* C39: after every step the state last reported through onStateChange is the
\* state getState returns, and a startRecording call made while isRecording is
\* set returns false and changes nothing.
C39_ReportedStateIsState ==
    [][/\ stateChange' # <<>> => stateChange' = <<State(isRecording', isProcessing')>>
       /\ \A k \in Recordings :
              (isRecording /\ recPc[k] = "idle" /\ recPc'[k] # "idle")
                  => /\ recPc'[k] = "refused"
                     /\ UNCHANGED <<isRecording, isProcessing, mediaRecorder, stateChange,
                                    paPc, callbacks>>]_vars

====
